---- MODULE Spec2Model ----
(***************************************************************************)
(* shellswap: toggles the login shell of root in the first record of      *)
(* /etc/passwd between /bin/bash and /bin/zsh.  The model follows main()  *)
(* of shellswap.c call by call over a small file system of inodes and     *)
(* directory entries, with every library call able to fail and the        *)
(* process able to be killed between any two calls.                       *)
(***************************************************************************)
EXTENDS Integers, Sequences, FiniteSets, TLC

(* ---- bounds of the model ---------------------------------------------- *)
MaxRecords == 3       \* records in the initial account database
MaxRuns == 2          \* invocations of the tool, one after the other
LongLen == 260        \* length of the name field of the long record

(* ---- program constants ------------------------------------------------ *)
PASSWD_FILE == "/etc/passwd"
TEMP_PASSWD_FILE == "/etc/passwd.tmp"
ROOT_BASH_LINE == "root:x:0:0:root:/root:/bin/bash"
ROOT_ZSH_LINE == "root:x:0:0:root:/root:/bin/zsh"
LINE_BUFFER_SIZE == 256
Mode0644 == 420       \* 0644, the mode given to chmod
Mode0666 == 438       \* 0666, the mode fopen(.., "w") creates a file with
MSG_BASH_TO_ZSH == "Swapped root shell from /bin/bash to /bin/zsh."
MSG_ZSH_TO_BASH == "Swapped root shell from /bin/zsh to /bin/bash."
MSG_UPDATED == PASSWD_FILE \o " has been updated successfully."

Procs == {"A", "B"}                       \* instances of the tool
Inos == 1..(2 + 2 * Cardinality(Procs))   \* two linked files, two handles each
NoIno == 0                                \* "no such file"

(* ---- strings ---------------------------------------------------------- *)
Min(a, b) == IF a < b THEN a ELSE b

RECURSIVE Rep(_, _)
Rep(s, n) ==      \* n copies of s
    IF n <= 0 THEN ""
    ELSE IF n = 1 THEN s
    ELSE LET half == Rep(s, n \div 2)
         IN  half \o half \o (IF n % 2 = 1 THEN s ELSE "")

\* str ends with the bytes of suffix
EndsWith(str, suffix) ==
    /\ Len(str) >= Len(suffix)
    /\ SubSeq(str, Len(str) - Len(suffix) + 1, Len(str)) = suffix

\* strips the newline and one blank before it
strip_blank(str) ==
    LET len == Len(str)
        cut == IF len > 0 /\ SubSeq(str, len, len) = "\n" THEN len - 1 ELSE len
    IN  IF cut > 0 /\ SubSeq(str, cut, cut) = " "
        THEN SubSeq(str, 1, cut - 1)
        ELSE SubSeq(str, 1, cut)

\* strlen-based strip of one trailing newline
strip_newline(str) ==
    LET len == Len(str)
    IN  IF len > 0 /\ SubSeq(str, len, len) = "\n"
        THEN SubSeq(str, 1, len - 1)
        ELSE str

\* position of the first newline among bytes lo..hi of s, 0 if none
RECURSIVE FirstNewline(_, _, _)
FirstNewline(s, lo, hi) ==
    IF lo > hi THEN 0
    ELSE IF lo = hi THEN (IF SubSeq(s, lo, lo) = "\n" THEN lo ELSE 0)
    ELSE LET mid == (lo + hi) \div 2
             left == FirstNewline(s, lo, mid)
         IN  IF left > 0 THEN left ELSE FirstNewline(s, mid + 1, hi)

\* number of bytes one fgets(buf, size, fp) takes from the unread input s:
\* up to and including the first newline, at most size - 1 bytes
FgetsLen(s, size) ==
    LET most == Min(Len(s), size - 1)
        nl == FirstNewline(s, 1, most)
    IN  IF nl > 0 THEN nl ELSE most

\* the bytes of a file from offset off (0-based) to its end
Unread(content, off) == SubSeq(content, off + 1, Len(content))

HoleByte == "@"   \* stands for the NUL bytes of a hole left by a write past the end

\* pwrite of data at offset off
WriteAt(content, off, data) ==
    IF data = "" THEN content ELSE
    LET padded == IF Len(content) < off
                  THEN content \o Rep(HoleByte, off - Len(content))
                  ELSE content
    IN  SubSeq(padded, 1, off) \o data
        \o SubSeq(padded, off + Len(data) + 1, Len(padded))

(* ---- mode bits -------------------------------------------------------- *)
RECURSIVE AndNot(_, _)
AndNot(a, b) ==     \* a & ~b on non-negative integers
    IF a = 0 THEN 0
    ELSE (IF a % 2 = 1 /\ b % 2 = 0 THEN 1 ELSE 0) + 2 * AndNot(a \div 2, b \div 2)

Umasks == {18, 63}            \* 022 and 077
CreateMode(um) == AndNot(Mode0666, um)

(* ---- the account databases the runs start from ------------------------ *)
FISH_LINE == "root:x:0:0:root:/root:/bin/fish"
GECOS_BASH_LINE == "root:x:0:0:Super User:/root:/bin/bash"
DAEMON_LINE == "daemon:x:1:1:daemon:/usr/sbin:/usr/sbin/nologin"
NOBODY_LINE == "nobody:x:65534:65534:nobody:/nonexistent:/usr/sbin/nologin"
LONG_LINE == Rep("u", LongLen) \o ":x:1000:1000::/home/u:/bin/sh"

FirstRecords ==
    { ROOT_BASH_LINE \o "\n", ROOT_ZSH_LINE \o "\n",
      ROOT_BASH_LINE, ROOT_ZSH_LINE,
      FISH_LINE \o "\n", GECOS_BASH_LINE \o "\n",
      ROOT_BASH_LINE \o " \n", ROOT_ZSH_LINE \o "\r\n" }

TailRecords == { DAEMON_LINE \o "\n", LONG_LINE \o "\n", NOBODY_LINE }

\* k whole records that follow the first one
RECURSIVE Filler(_)
Filler(k) ==
    IF k = 0 THEN ""
    ELSE Filler(k - 1) \o (IF k % 2 = 1 THEN LONG_LINE ELSE DAEMON_LINE) \o "\n"

\* records 2..N of a database: any number of them up to the bound, the
\* last one with or without its newline
Bodies ==
    {""} \cup { Filler(n - 1) \o last : n \in 1..(MaxRecords - 1), last \in TailRecords }

Databases == {""} \cup { first \o body : first \in FirstRecords, body \in Bodies }

TargetModes == {Mode0644, 384}            \* 0644, 0600

\* what a run may find at the scratch path: nothing, an empty file, or the
\* result of an earlier run whose rename failed
Absent == [exists |-> FALSE, content |-> "", mode |-> 0]
StaleScratch ==
    { Absent,
      [exists |-> TRUE, content |-> "", mode |-> Mode0644],
      [exists |-> TRUE, content |-> ROOT_ZSH_LINE \o "\nstale:x:9:9::/:/bin/sh\n", mode |-> 384] }

(* ---- state ------------------------------------------------------------ *)
VARIABLES
    instances,        \* the instances of the tool that are run
    dir,              \* directory /etc: path -> inode number, NoIno if absent
    inode,            \* inode number -> [content, mode]
    pc,               \* each instance's position in main()
    euid,             \* what geteuid() returned
    fp_passwd,        \* FILE *fp_passwd
    fp_temp,          \* FILE *fp_temp
    line_buffer,      \* char line_buffer[]
    new_shell_line,
    success_message,
    swapped,
    exit_status,      \* value returned by main, meaningful when pc = "done"
    out,              \* lines written to stdout
    err,              \* lines written to stderr
    ops,              \* the file-system calls made in this run, in order
    pre,              \* the files as they were when this run started
    hist,             \* the finished runs, in order
    deb,              \* a run of install-deb.sh
    bin               \* a run of install-binary.sh

locals == <<euid, fp_passwd, fp_temp, line_buffer, new_shell_line,
            success_message, swapped, exit_status, out, err, ops, pre>>
tool == <<instances, dir, inode, pc, hist, locals>>    \* shellswap itself
installers == <<deb, bin>>                             \* the two scripts
vars == <<tool, installers>>

NullFile == [open |-> FALSE, ino |-> NoIno, off |-> 0, buf |-> ""]
FreeInode == [content |-> "", mode |-> 0]

\* what an observer sees at a path: existence, content and mode
FileAt(d, i, path) ==
    IF d[path] = NoIno
    THEN Absent
    ELSE [exists |-> TRUE, content |-> i[d[path]].content, mode |-> i[d[path]].mode]

Snapshot(d, i) ==
    [target |-> FileAt(d, i, PASSWD_FILE), scratch |-> FileAt(d, i, TEMP_PASSWD_FILE)]

Target == FileAt(dir, inode, PASSWD_FILE)
Scratch == FileAt(dir, inode, TEMP_PASSWD_FILE)

\* an inode lives while a directory entry or an open handle refers to it
Referenced(d, fr, fw) ==
    { d[PASSWD_FILE], d[TEMP_PASSWD_FILE] }
    \cup { fr[p].ino : p \in { q \in Procs : fr[q].open } }
    \cup { fw[p].ino : p \in { q \in Procs : fw[q].open } }

Reclaim(i, d, fr, fw) ==
    [n \in Inos |-> IF n \in Referenced(d, fr, fw) THEN i[n] ELSE FreeInode]

FreshIno == CHOOSE n \in Inos :
    /\ n \notin Referenced(dir, fp_passwd, fp_temp)
    /\ \A m \in Inos : m \notin Referenced(dir, fp_passwd, fp_temp) => n <= m

InitLocals ==
    /\ euid = [p \in Procs |-> 0]
    /\ fp_passwd = [p \in Procs |-> NullFile]
    /\ fp_temp = [p \in Procs |-> NullFile]
    /\ line_buffer = [p \in Procs |-> ""]
    /\ new_shell_line = [p \in Procs |-> ""]
    /\ success_message = [p \in Procs |-> ""]
    /\ swapped = [p \in Procs |-> 0]
    /\ exit_status = [p \in Procs |-> 0]
    /\ out = [p \in Procs |-> <<>>]
    /\ err = [p \in Procs |-> <<>>]
    /\ ops = [p \in Procs |-> <<>>]

InitFiles ==
    \E targetThere \in BOOLEAN, db \in Databases, tmode \in TargetModes,
       stale \in StaleScratch :
        /\ targetThere = FALSE => (db = "" /\ tmode = Mode0644)
        /\ dir = [q \in {PASSWD_FILE, TEMP_PASSWD_FILE} |->
                    IF q = PASSWD_FILE
                    THEN (IF targetThere THEN 1 ELSE NoIno)
                    ELSE (IF stale.exists THEN 2 ELSE NoIno)]
        /\ inode = [n \in Inos |->
                    IF n = 1 /\ targetThere THEN [content |-> db, mode |-> tmode]
                    ELSE IF n = 2 /\ stale.exists
                         THEN [content |-> stale.content, mode |-> stale.mode]
                    ELSE FreeInode]

InitWith(insts) ==
    /\ instances = insts
    /\ InitFiles
    /\ InitLocals
    /\ pc = [p \in Procs |-> IF p \in insts THEN "start" ELSE "idle"]
    /\ pre = [p \in Procs |-> Snapshot(dir, inode)]
    /\ hist = <<>>

(* ---- the installer scripts, as run by bash with set -e ----------------- *)
Mode0755 == 493
Mode0700 == 448
Mode0600 == 384

Cmd(name, ok) == [cmd |-> name, ok |-> ok]

\* install-deb.sh not run
DebIdle ==
    [pc |-> "idle", have_apt |-> TRUE, have_dpkg |-> TRUE, TEMP_DIR |-> FALSE,
     trap |-> FALSE, TEMP_DEB_PATH |-> "none", INSTALL_SUCCESS |-> 0,
     installed |-> "no", advice |-> FALSE, cmds |-> <<>>, status |-> 0]

\* install-deb.sh started on a system with or without apt and dpkg
DebStarts ==
    { [DebIdle EXCEPT !.pc = "start", !.have_apt = a, !.have_dpkg = d] :
        a \in BOOLEAN, d \in BOOLEAN }

\* what is at /bin/shellswap: nothing, the binary of an earlier install, the
\* new binary, or part of it
NoBinary == [holds |-> "nothing", mode |-> 0]
OldBinary == [holds |-> "old", mode |-> Mode0755]

\* install-binary.sh not run (previous: what was at /bin/shellswap when the
\* script started)
BinIdle ==
    [pc |-> "idle", TEMP_DIR |-> FALSE, trap |-> FALSE,
     TEMP_BINARY_PATH |-> NoBinary, installed |-> NoBinary, previous |-> NoBinary,
     chowned |-> FALSE, cmds |-> <<>>, status |-> 0]

\* install-binary.sh started with or without an earlier binary in place
BinStarts ==
    { [BinIdle EXCEPT !.pc = "start", !.installed = b, !.previous = b] :
        b \in {NoBinary, OldBinary} }

InstallersIdle == deb = DebIdle /\ bin = BinIdle

Init == InitWith({"A"}) /\ InstallersIdle

(* ---- helpers of the actions ------------------------------------------- *)
Call(name, ok) == [call |-> name, ok |-> ok]

\* the stdio buffer of h reaches the file at the handle's offset
Flushed(i, h, data) == [i EXCEPT ![h.ino].content = WriteAt(@, h.off, data)]

\* main returns code: the run is over
Return(p, code) ==
    /\ pc' = [pc EXCEPT ![p] = "done"]
    /\ exit_status' = [exit_status EXCEPT ![p] = code]
    /\ hist' = Append(hist, [pre |-> pre[p], post |-> Snapshot(dir', inode'),
                             how |-> "exit", status |-> code])

Goto(p, label) ==
    /\ pc' = [pc EXCEPT ![p] = label]
    /\ UNCHANGED <<exit_status, hist>>

(* ---- main(), call by call --------------------------------------------- *)
\* the tool is invoked again after a run that succeeded (shellswap && shellswap)
StartRun(p) ==
    /\ pc[p] = "done"
    /\ exit_status[p] = 0
    /\ Len(hist) < MaxRuns
    /\ pc' = [pc EXCEPT ![p] = "start"]
    /\ euid' = [euid EXCEPT ![p] = 0]
    /\ fp_passwd' = [fp_passwd EXCEPT ![p] = NullFile]
    /\ fp_temp' = [fp_temp EXCEPT ![p] = NullFile]
    /\ line_buffer' = [line_buffer EXCEPT ![p] = ""]
    /\ new_shell_line' = [new_shell_line EXCEPT ![p] = ""]
    /\ success_message' = [success_message EXCEPT ![p] = ""]
    /\ swapped' = [swapped EXCEPT ![p] = 0]
    /\ exit_status' = [exit_status EXCEPT ![p] = 0]
    /\ out' = [out EXCEPT ![p] = <<>>]
    /\ err' = [err EXCEPT ![p] = <<>>]
    /\ ops' = [ops EXCEPT ![p] = <<>>]
    /\ pre' = [pre EXCEPT ![p] = Snapshot(dir, inode)]
    /\ UNCHANGED <<instances, dir, inode, hist>>

\* the message is printed but main goes on
CheckRootNoReturn(p) ==
    /\ pc[p] = "start"
    /\ \E id \in {0, 1000} :
        /\ euid' = [euid EXCEPT ![p] = id]
        /\ UNCHANGED <<instances, dir, inode, fp_passwd, fp_temp, line_buffer,
                       new_shell_line, success_message, swapped, out, ops, pre>>
        /\ err' = [err EXCEPT ![p] =
                    IF id # 0 THEN Append(@, "Error: This program must be run as root.") ELSE @]
        /\ Goto(p, "open_passwd")

\* if (geteuid() != 0) return 1;
CheckRoot(p) ==
    /\ pc[p] = "start"
    /\ \E id \in {0, 1000} :
        /\ euid' = [euid EXCEPT ![p] = id]
        /\ UNCHANGED <<instances, dir, inode, fp_passwd, fp_temp, line_buffer,
                       new_shell_line, success_message, swapped, out, ops, pre>>
        /\ IF id # 0
           THEN /\ err' = [err EXCEPT ![p] = Append(@, "Error: This program must be run as root.")]
                /\ Return(p, 1)
           ELSE /\ UNCHANGED err
                /\ Goto(p, "open_passwd")

\* a failed fopen of the database goes through the common error exit
OpenPasswdCleansUp(p) ==
    /\ pc[p] = "open_passwd"
    /\ \E ok \in BOOLEAN :
        /\ ok => dir[PASSWD_FILE] # NoIno
        /\ ops' = [ops EXCEPT ![p] = Append(@, Call("fopen_r", ok))]
        /\ UNCHANGED <<instances, dir, inode, euid, fp_temp, line_buffer,
                       new_shell_line, success_message, swapped, out, pre>>
        /\ IF ok
           THEN /\ fp_passwd' = [fp_passwd EXCEPT ![p] =
                        [open |-> TRUE, ino |-> dir[PASSWD_FILE], off |-> 0, buf |-> ""]]
                /\ UNCHANGED err
                /\ Goto(p, "open_temp")
           ELSE /\ UNCHANGED fp_passwd
                /\ err' = [err EXCEPT ![p] = Append(@, "Error opening /etc/passwd for reading")]
                /\ Goto(p, "err_remove")

\* fp_passwd = fopen(PASSWD_FILE, "r");
OpenPasswd(p) ==
    /\ pc[p] = "open_passwd"
    /\ \E ok \in BOOLEAN :
        /\ ok => dir[PASSWD_FILE] # NoIno
        /\ ops' = [ops EXCEPT ![p] = Append(@, Call("fopen_r", ok))]
        /\ UNCHANGED <<instances, dir, inode, euid, fp_temp, line_buffer,
                       new_shell_line, success_message, swapped, out, pre>>
        /\ IF ok
           THEN /\ fp_passwd' = [fp_passwd EXCEPT ![p] =
                        [open |-> TRUE, ino |-> dir[PASSWD_FILE], off |-> 0, buf |-> ""]]
                /\ UNCHANGED err
                /\ Goto(p, "open_temp")
           ELSE /\ UNCHANGED fp_passwd
                /\ err' = [err EXCEPT ![p] = Append(@, "Error opening /etc/passwd for reading")]
                /\ Return(p, 1)

\* a failed fopen of the scratch file returns with the database still open
OpenTempLeaks(p) ==
    /\ pc[p] = "open_temp"
    /\ \E ok \in BOOLEAN, um \in Umasks :
        /\ (~ok \/ dir[TEMP_PASSWD_FILE] # NoIno) => um = 18
        /\ UNCHANGED <<instances, euid, line_buffer, new_shell_line,
                       success_message, swapped, out, pre>>
        /\ IF ok
           THEN LET there == dir[TEMP_PASSWD_FILE] # NoIno
                    n == IF there THEN dir[TEMP_PASSWD_FILE] ELSE FreshIno
                IN  /\ dir' = [dir EXCEPT ![TEMP_PASSWD_FILE] = n]
                    /\ inode' = [inode EXCEPT ![n] =
                            IF there THEN [@ EXCEPT !.content = ""]
                            ELSE [content |-> "", mode |-> CreateMode(um)]]
                    /\ fp_temp' = [fp_temp EXCEPT ![p] =
                            [open |-> TRUE, ino |-> n, off |-> 0, buf |-> ""]]
                    /\ ops' = [ops EXCEPT ![p] = Append(@, Call("fopen_w", TRUE))]
                    /\ UNCHANGED <<fp_passwd, err>>
                    /\ Goto(p, "read_first")
           ELSE /\ err' = [err EXCEPT ![p] = Append(@, "Error opening /etc/passwd.tmp for writing")]
                /\ ops' = [ops EXCEPT ![p] = Append(@, Call("fopen_w", FALSE))]
                /\ UNCHANGED <<dir, inode, fp_passwd, fp_temp>>
                /\ Return(p, 1)

\* the scratch file is opened with "a": what it held is kept and the new
\* content is written after it
OpenTempAppends(p) ==
    /\ pc[p] = "open_temp"
    /\ \E ok \in BOOLEAN, um \in Umasks :
        /\ (~ok \/ dir[TEMP_PASSWD_FILE] # NoIno) => um = 18
        /\ UNCHANGED <<instances, euid, line_buffer, new_shell_line,
                       success_message, swapped, out, pre>>
        /\ IF ok
           THEN LET there == dir[TEMP_PASSWD_FILE] # NoIno
                    n == IF there THEN dir[TEMP_PASSWD_FILE] ELSE FreshIno
                IN  /\ dir' = [dir EXCEPT ![TEMP_PASSWD_FILE] = n]
                    /\ inode' = [inode EXCEPT ![n] =
                            IF there THEN @
                            ELSE [content |-> "", mode |-> CreateMode(um)]]
                    /\ fp_temp' = [fp_temp EXCEPT ![p] =
                            [open |-> TRUE, ino |-> n,
                             off |-> IF there THEN Len(inode[n].content) ELSE 0,
                             buf |-> ""]]
                    /\ ops' = [ops EXCEPT ![p] = Append(@, Call("fopen_w", TRUE))]
                    /\ UNCHANGED <<fp_passwd, err>>
                    /\ Goto(p, "read_first")
           ELSE /\ err' = [err EXCEPT ![p] = Append(@, "Error opening /etc/passwd.tmp for writing")]
                /\ ops' = [ops EXCEPT ![p] = ops[p] \o <<Call("fopen_w", FALSE), Call("fclose_r", TRUE)>>]
                /\ fp_passwd' = [fp_passwd EXCEPT ![p] = NullFile]
                /\ UNCHANGED <<dir, fp_temp>>
                /\ inode' = Reclaim(inode, dir', fp_passwd', fp_temp')
                /\ Return(p, 1)

\* fp_temp = fopen(TEMP_PASSWD_FILE, "w"): create or truncate
OpenTemp(p) ==
    /\ pc[p] = "open_temp"
    /\ \E ok \in BOOLEAN, um \in Umasks :
        /\ (~ok \/ dir[TEMP_PASSWD_FILE] # NoIno) => um = 18
        /\ UNCHANGED <<instances, euid, line_buffer, new_shell_line,
                       success_message, swapped, out, pre>>
        /\ IF ok
           THEN LET there == dir[TEMP_PASSWD_FILE] # NoIno
                    n == IF there THEN dir[TEMP_PASSWD_FILE] ELSE FreshIno
                IN  /\ dir' = [dir EXCEPT ![TEMP_PASSWD_FILE] = n]
                    /\ inode' = [inode EXCEPT ![n] =
                            IF there THEN [@ EXCEPT !.content = ""]
                            ELSE [content |-> "", mode |-> CreateMode(um)]]
                    /\ fp_temp' = [fp_temp EXCEPT ![p] =
                            [open |-> TRUE, ino |-> n, off |-> 0, buf |-> ""]]
                    /\ ops' = [ops EXCEPT ![p] = Append(@, Call("fopen_w", TRUE))]
                    /\ UNCHANGED <<fp_passwd, err>>
                    /\ Goto(p, "read_first")
           ELSE /\ err' = [err EXCEPT ![p] = Append(@, "Error opening /etc/passwd.tmp for writing")]
                /\ ops' = [ops EXCEPT ![p] = ops[p] \o <<Call("fopen_w", FALSE), Call("fclose_r", TRUE)>>]
                /\ fp_passwd' = [fp_passwd EXCEPT ![p] = NullFile]
                /\ UNCHANGED <<dir, fp_temp>>
                /\ inode' = Reclaim(inode, dir', fp_passwd', fp_temp')
                /\ Return(p, 1)

\* every error exit after both files are open starts with
\* fclose(fp_passwd); fclose(fp_temp); remove(TEMP_PASSWD_FILE); return 1;
Fail(p, message) ==
    /\ err' = [err EXCEPT ![p] = @ \o message]
    /\ Goto(p, "err_close")

\* a NULL first fgets returns at once, leaving both files open and the
\* scratch file in place
ReadFirstReturnsEarly(p) ==
    /\ pc[p] = "read_first"
    /\ LET h == fp_passwd[p]
           rest == Unread(inode[h.ino].content, h.off)
           n == FgetsLen(rest, LINE_BUFFER_SIZE)
       IN  \E ok \in BOOLEAN :
            /\ ops' = [ops EXCEPT ![p] = Append(@, Call("fgets", ok))]
            /\ UNCHANGED <<instances, dir, inode, euid, fp_temp, new_shell_line,
                           success_message, swapped, out, pre>>
            /\ IF ok /\ n > 0
               THEN /\ line_buffer' = [line_buffer EXCEPT ![p] = SubSeq(rest, 1, n)]
                    /\ fp_passwd' = [fp_passwd EXCEPT ![p].off = @ + n]
                    /\ UNCHANGED err
                    /\ Goto(p, "decide")
               ELSE /\ UNCHANGED <<line_buffer, fp_passwd>>
                    /\ err' = [err EXCEPT ![p] =
                            Append(@, "Error: /etc/passwd is empty or could not read the first line.")]
                    /\ Return(p, 1)

\* if (fgets(line_buffer, sizeof(line_buffer), fp_passwd) == NULL) ...
ReadFirst(p) ==
    /\ pc[p] = "read_first"
    /\ LET h == fp_passwd[p]
           rest == Unread(inode[h.ino].content, h.off)
           n == FgetsLen(rest, LINE_BUFFER_SIZE)
       IN  \E ok \in BOOLEAN :
            /\ ops' = [ops EXCEPT ![p] = Append(@, Call("fgets", ok))]
            /\ UNCHANGED <<instances, dir, inode, euid, fp_temp, new_shell_line,
                           success_message, swapped, out, pre>>
            /\ IF ok /\ n > 0
               THEN /\ line_buffer' = [line_buffer EXCEPT ![p] = SubSeq(rest, 1, n)]
                    /\ fp_passwd' = [fp_passwd EXCEPT ![p].off = @ + n]
                    /\ UNCHANGED err
                    /\ Goto(p, "decide")
               ELSE /\ UNCHANGED <<line_buffer, fp_passwd>>
                    /\ IF ok
                       THEN Fail(p, <<"Error: /etc/passwd is empty or could not read the first line.">>)
                       ELSE Fail(p, <<"Error reading first line from /etc/passwd">>)

\* the outcome of the two strcmp on the stripped first line
NoSwap == [swapped |-> 0, new_shell_line |-> "", success_message |-> ""]

SwapForCrossed(line) ==     \* the two messages exchanged
    IF line = ROOT_BASH_LINE
    THEN [swapped |-> 1, new_shell_line |-> ROOT_ZSH_LINE, success_message |-> MSG_ZSH_TO_BASH]
    ELSE IF line = ROOT_ZSH_LINE
    THEN [swapped |-> 1, new_shell_line |-> ROOT_BASH_LINE, success_message |-> MSG_BASH_TO_ZSH]
    ELSE NoSwap

SwapForSticky(line) ==      \* the second branch a copy of the first
    IF line = ROOT_BASH_LINE
    THEN [swapped |-> 1, new_shell_line |-> ROOT_ZSH_LINE, success_message |-> MSG_BASH_TO_ZSH]
    ELSE IF line = ROOT_ZSH_LINE
    THEN [swapped |-> 1, new_shell_line |-> ROOT_ZSH_LINE, success_message |-> MSG_BASH_TO_ZSH]
    ELSE NoSwap

SwapForShellField(line) ==  \* only the shell at the end of the line is looked at
    IF EndsWith(line, ":/bin/bash")
    THEN [swapped |-> 1, new_shell_line |-> ROOT_ZSH_LINE, success_message |-> MSG_BASH_TO_ZSH]
    ELSE IF EndsWith(line, ":/bin/zsh")
    THEN [swapped |-> 1, new_shell_line |-> ROOT_BASH_LINE, success_message |-> MSG_ZSH_TO_BASH]
    ELSE NoSwap

SwapFor(line) ==
    IF line = ROOT_BASH_LINE
    THEN [swapped |-> 1, new_shell_line |-> ROOT_ZSH_LINE, success_message |-> MSG_BASH_TO_ZSH]
    ELSE IF line = ROOT_ZSH_LINE
    THEN [swapped |-> 1, new_shell_line |-> ROOT_BASH_LINE, success_message |-> MSG_ZSH_TO_BASH]
    ELSE NoSwap

\* the first line is put into the scratch file's buffer before it is compared
DecideAfterWrite(p) ==
    /\ pc[p] = "decide"
    /\ LET line == strip_newline(line_buffer[p])
           swap == SwapFor(line)
       IN  /\ line_buffer' = [line_buffer EXCEPT ![p] = line]
           /\ fp_temp' = [fp_temp EXCEPT ![p].buf = @ \o line \o "\n"]
           /\ UNCHANGED <<instances, dir, inode, euid, fp_passwd, out, ops, pre>>
           /\ IF swap.swapped = 1
              THEN /\ new_shell_line' = [new_shell_line EXCEPT ![p] = swap.new_shell_line]
                   /\ success_message' = [success_message EXCEPT ![p] = swap.success_message]
                   /\ swapped' = [swapped EXCEPT ![p] = 1]
                   /\ UNCHANGED err
                   /\ Goto(p, "write_first")
              ELSE /\ UNCHANGED <<new_shell_line, success_message, swapped>>
                   /\ Fail(p, <<"Error: The first line of /etc/passwd does not match the expected root shell configuration for bash or zsh.",
                                "Found: \"" \o line \o "\"",
                                "No changes made.">>)

\* strip_newline(line_buffer); then the swap decision
Decide(p) ==
    /\ pc[p] = "decide"
    /\ LET line == strip_newline(line_buffer[p])
           swap == SwapFor(line)
       IN  /\ line_buffer' = [line_buffer EXCEPT ![p] = line]
           /\ UNCHANGED <<instances, dir, inode, euid, fp_passwd, fp_temp, out, ops, pre>>
           /\ IF swap.swapped = 1
              THEN /\ new_shell_line' = [new_shell_line EXCEPT ![p] = swap.new_shell_line]
                   /\ success_message' = [success_message EXCEPT ![p] = swap.success_message]
                   /\ swapped' = [swapped EXCEPT ![p] = 1]
                   /\ UNCHANGED err
                   /\ Goto(p, "write_first")
              ELSE /\ UNCHANGED <<new_shell_line, success_message, swapped>>
                   /\ Fail(p, <<"Error: The first line of /etc/passwd does not match the expected root shell configuration for bash or zsh.",
                                "Found: \"" \o line \o "\"",
                                "No changes made.">>)

\* a write of data through the stdio buffer of fp_temp: it is kept in the
\* buffer, or the buffer is written out, or writing it out fails
Put(p, call, data, next, message) ==
    LET h == fp_temp[p]
        all == h.buf \o data
    IN  /\ UNCHANGED <<instances, dir, euid, fp_passwd, line_buffer, new_shell_line,
                       success_message, swapped, out, pre>>
        /\ \E way \in {"buffered", "flushed", "failed"} :
            /\ ops' = [ops EXCEPT ![p] = Append(@, Call(call, way # "failed"))]
            /\ CASE way = "buffered" ->
                    /\ fp_temp' = [fp_temp EXCEPT ![p].buf = all]
                    /\ UNCHANGED <<inode, err>>
                    /\ Goto(p, next)
                 [] way = "flushed" ->
                    /\ inode' = Flushed(inode, h, all)
                    /\ fp_temp' = [fp_temp EXCEPT ![p].buf = "", ![p].off = @ + Len(all)]
                    /\ UNCHANGED err
                    /\ Goto(p, next)
                 [] way = "failed" ->
                    /\ fp_temp' = [fp_temp EXCEPT ![p].buf = all]
                    /\ UNCHANGED inode
                    /\ Fail(p, <<message>>)

\* the new first line written with "%s", without the newline
WriteFirstNoNewline(p) ==
    /\ pc[p] = "write_first"
    /\ Put(p, "fprintf", new_shell_line[p], "copy_read",
           "Error writing swapped line to temporary file")

\* if (fprintf(fp_temp, "%s\n", new_shell_line) < 0) ...
WriteFirst(p) ==
    /\ pc[p] = "write_first"
    /\ Put(p, "fprintf", new_shell_line[p] \o "\n", "copy_read",
           "Error writing swapped line to temporary file")

\* a read error in the copy loop is retried once before it is reported
CopyReadRetries(p) ==
    /\ pc[p] = "copy_read"
    /\ LET h == fp_passwd[p]
           rest == Unread(inode[h.ino].content, h.off)
           n == FgetsLen(rest, LINE_BUFFER_SIZE)
       IN  \E ok \in BOOLEAN :
            /\ ops' = [ops EXCEPT ![p] = Append(@, Call("fgets", ok))]
            /\ UNCHANGED <<instances, dir, inode, euid, fp_temp, new_shell_line,
                           success_message, swapped, out, pre>>
            /\ IF ok /\ n > 0
               THEN /\ line_buffer' = [line_buffer EXCEPT ![p] = SubSeq(rest, 1, n)]
                    /\ fp_passwd' = [fp_passwd EXCEPT ![p].off = @ + n]
                    /\ UNCHANGED err
                    /\ Goto(p, "copy_write")
               ELSE /\ UNCHANGED <<line_buffer, fp_passwd>>
                    /\ IF ok
                       THEN /\ UNCHANGED err
                            /\ Goto(p, "close_files")
                       ELSE IF \E i \in 1..Len(ops[p]) : ops[p][i] = Call("fgets", FALSE)
                            THEN Fail(p, <<"Error reading from /etc/passwd">>)
                            ELSE /\ UNCHANGED err
                                 /\ Goto(p, "copy_read")

\* the loop takes a read error for the end of the input: no ferror check
CopyReadNoFerror(p) ==
    /\ pc[p] = "copy_read"
    /\ LET h == fp_passwd[p]
           rest == Unread(inode[h.ino].content, h.off)
           n == FgetsLen(rest, LINE_BUFFER_SIZE)
       IN  \E ok \in BOOLEAN :
            /\ ops' = [ops EXCEPT ![p] = Append(@, Call("fgets", ok))]
            /\ UNCHANGED <<instances, dir, inode, euid, fp_temp, new_shell_line,
                           success_message, swapped, out, err, pre>>
            /\ IF ok /\ n > 0
               THEN /\ line_buffer' = [line_buffer EXCEPT ![p] = SubSeq(rest, 1, n)]
                    /\ fp_passwd' = [fp_passwd EXCEPT ![p].off = @ + n]
                    /\ Goto(p, "copy_write")
               ELSE /\ UNCHANGED <<line_buffer, fp_passwd>>
                    /\ Goto(p, "close_files")

\* what does not fit the buffer is read and dropped, up to the end of the line
CopyReadDropsOverflow(p) ==
    /\ pc[p] = "copy_read"
    /\ LET h == fp_passwd[p]
           rest == Unread(inode[h.ino].content, h.off)
           n == FgetsLen(rest, LINE_BUFFER_SIZE)
           nl == FirstNewline(rest, 1, Len(rest))
           taken == IF nl > 0 THEN nl ELSE Len(rest)
       IN  \E ok \in BOOLEAN :
            /\ ops' = [ops EXCEPT ![p] = Append(@, Call("fgets", ok))]
            /\ UNCHANGED <<instances, dir, inode, euid, fp_temp, new_shell_line,
                           success_message, swapped, out, pre>>
            /\ IF ok /\ n > 0
               THEN /\ line_buffer' = [line_buffer EXCEPT ![p] = SubSeq(rest, 1, n)]
                    /\ fp_passwd' = [fp_passwd EXCEPT ![p].off = @ + taken]
                    /\ UNCHANGED err
                    /\ Goto(p, "copy_write")
               ELSE /\ UNCHANGED <<line_buffer, fp_passwd>>
                    /\ IF ok
                       THEN /\ UNCHANGED err
                            /\ Goto(p, "close_files")
                       ELSE Fail(p, <<"Error reading from /etc/passwd">>)

\* while (fgets(line_buffer, sizeof(line_buffer), fp_passwd) != NULL), and
\* the ferror(fp_passwd) check that follows the loop
CopyRead(p) ==
    /\ pc[p] = "copy_read"
    /\ LET h == fp_passwd[p]
           rest == Unread(inode[h.ino].content, h.off)
           n == FgetsLen(rest, LINE_BUFFER_SIZE)
       IN  \E ok \in BOOLEAN :
            /\ ops' = [ops EXCEPT ![p] = Append(@, Call("fgets", ok))]
            /\ UNCHANGED <<instances, dir, inode, euid, fp_temp, new_shell_line,
                           success_message, swapped, out, pre>>
            /\ IF ok /\ n > 0
               THEN /\ line_buffer' = [line_buffer EXCEPT ![p] = SubSeq(rest, 1, n)]
                    /\ fp_passwd' = [fp_passwd EXCEPT ![p].off = @ + n]
                    /\ UNCHANGED err
                    /\ Goto(p, "copy_write")
               ELSE /\ UNCHANGED <<line_buffer, fp_passwd>>
                    /\ IF ok
                       THEN /\ UNCHANGED err
                            /\ Goto(p, "close_files")
                       ELSE Fail(p, <<"Error reading from /etc/passwd">>)

\* the line written the way the first one is, with "%s\n" after a strip
CopyWriteLine(p) ==
    /\ pc[p] = "copy_write"
    /\ Put(p, "fputs", strip_newline(line_buffer[p]) \o "\n", "copy_read",
           "Error writing subsequent line to temporary file")

\* if (fputs(line_buffer, fp_temp) == EOF) ...
CopyWrite(p) ==
    /\ pc[p] = "copy_write"
    /\ Put(p, "fputs", line_buffer[p], "copy_read",
           "Error writing subsequent line to temporary file")

\* only the scratch handle is closed
ClosedOnlyTemp(p, ok) ==
    LET h == fp_temp[p]
    IN  /\ UNCHANGED fp_passwd
        /\ fp_temp' = [fp_temp EXCEPT ![p] = NullFile]
        /\ inode' = Reclaim(IF ok THEN Flushed(inode, h, h.buf) ELSE inode,
                            dir, fp_passwd', fp_temp')
        /\ ops' = [ops EXCEPT ![p] = Append(@, Call("fclose_w", ok))]

\* fclose(fp_temp) writes out what the buffer still holds, or fails to, and
\* releases the handle either way
Closed(p, ok) ==
    LET h == fp_temp[p]
    IN  /\ fp_passwd' = [fp_passwd EXCEPT ![p] = NullFile]
        /\ fp_temp' = [fp_temp EXCEPT ![p] = NullFile]
        /\ inode' = Reclaim(IF ok THEN Flushed(inode, h, h.buf) ELSE inode,
                            dir, fp_passwd', fp_temp')
        /\ ops' = [ops EXCEPT ![p] = @ \o <<Call("fclose_r", TRUE), Call("fclose_w", ok)>>]

\* the result of fclose(fp_temp) is not looked at
CloseFilesUnchecked(p) ==
    /\ pc[p] = "close_files"
    /\ UNCHANGED <<instances, dir, euid, line_buffer, new_shell_line,
                   success_message, swapped, out, err, pre>>
    /\ \E ok \in BOOLEAN :
        /\ Closed(p, ok)
        /\ Goto(p, "chmod")

\* fclose(fp_passwd); if (fclose(fp_temp) == EOF) { remove; return 1; }
CloseFiles(p) ==
    /\ pc[p] = "close_files"
    /\ UNCHANGED <<instances, dir, euid, line_buffer, new_shell_line,
                   success_message, swapped, out, pre>>
    /\ \E ok \in BOOLEAN :
        /\ Closed(p, ok)
        /\ IF ok
           THEN /\ UNCHANGED err
                /\ Goto(p, "chmod")
           ELSE /\ err' = [err EXCEPT ![p] = Append(@, "Error closing temporary file /etc/passwd.tmp")]
                /\ Goto(p, "err_remove")

\* chmod given the path of the target
ChmodTarget(p) ==
    /\ pc[p] = "chmod"
    /\ UNCHANGED <<instances, dir, euid, fp_passwd, fp_temp, line_buffer,
                   new_shell_line, success_message, swapped, out, pre>>
    /\ \E ok \in BOOLEAN :
        /\ ok => dir[PASSWD_FILE] # NoIno
        /\ ops' = [ops EXCEPT ![p] = Append(@, Call("chmod", ok))]
        /\ IF ok
           THEN /\ inode' = [inode EXCEPT ![dir[PASSWD_FILE]].mode = Mode0644]
                /\ UNCHANGED err
                /\ Goto(p, "rename")
           ELSE /\ UNCHANGED inode
                /\ err' = [err EXCEPT ![p] = Append(@, "Error setting permissions on /etc/passwd.tmp")]
                /\ Goto(p, "err_remove")

\* no chmod at all: the scratch file keeps the mode it was created with
ChmodSkipped(p) ==
    /\ pc[p] = "chmod"
    /\ UNCHANGED <<instances, dir, inode, euid, fp_passwd, fp_temp, line_buffer,
                   new_shell_line, success_message, swapped, out, err, ops, pre>>
    /\ Goto(p, "rename")

\* the result of chmod is not looked at
ChmodUnchecked(p) ==
    /\ pc[p] = "chmod"
    /\ UNCHANGED <<instances, dir, euid, fp_passwd, fp_temp, line_buffer,
                   new_shell_line, success_message, swapped, out, err, pre>>
    /\ \E ok \in BOOLEAN :
        /\ ok => dir[TEMP_PASSWD_FILE] # NoIno
        /\ ops' = [ops EXCEPT ![p] = Append(@, Call("chmod", ok))]
        /\ IF ok
           THEN inode' = [inode EXCEPT ![dir[TEMP_PASSWD_FILE]].mode = Mode0644]
           ELSE UNCHANGED inode
        /\ Goto(p, "rename")

\* if (chmod(TEMP_PASSWD_FILE, 0644) != 0) { remove; return 1; }
Chmod(p) ==
    /\ pc[p] = "chmod"
    /\ UNCHANGED <<instances, dir, euid, fp_passwd, fp_temp, line_buffer,
                   new_shell_line, success_message, swapped, out, pre>>
    /\ \E ok \in BOOLEAN :
        /\ ok => dir[TEMP_PASSWD_FILE] # NoIno
        /\ ops' = [ops EXCEPT ![p] = Append(@, Call("chmod", ok))]
        /\ IF ok
           THEN /\ inode' = [inode EXCEPT ![dir[TEMP_PASSWD_FILE]].mode = Mode0644]
                /\ UNCHANGED err
                /\ Goto(p, "rename")
           ELSE /\ UNCHANGED inode
                /\ err' = [err EXCEPT ![p] = Append(@, "Error setting permissions on /etc/passwd.tmp")]
                /\ Goto(p, "err_remove")

\* a failed rename cleans up like every other error
RenameCleansUp(p) ==
    /\ pc[p] = "rename"
    /\ UNCHANGED <<instances, euid, fp_passwd, fp_temp, line_buffer,
                   new_shell_line, success_message, swapped, out, pre>>
    /\ \E ok \in BOOLEAN :
        /\ ok => dir[TEMP_PASSWD_FILE] # NoIno
        /\ ops' = [ops EXCEPT ![p] = Append(@, Call("rename", ok))]
        /\ IF ok
           THEN /\ dir' = [dir EXCEPT ![PASSWD_FILE] = dir[TEMP_PASSWD_FILE],
                                      ![TEMP_PASSWD_FILE] = NoIno]
                /\ inode' = Reclaim(inode, dir', fp_passwd, fp_temp)
                /\ UNCHANGED err
                /\ Goto(p, "report")
           ELSE /\ dir' = [dir EXCEPT ![TEMP_PASSWD_FILE] = NoIno]
                /\ inode' = Reclaim(inode, dir', fp_passwd, fp_temp)
                /\ err' = [err EXCEPT ![p] = Append(@, "CRITICAL: Error renaming /etc/passwd.tmp to /etc/passwd")]
                /\ Return(p, 1)

\* the result of rename is not looked at
RenameUnchecked(p) ==
    /\ pc[p] = "rename"
    /\ UNCHANGED <<instances, euid, fp_passwd, fp_temp, line_buffer,
                   new_shell_line, success_message, swapped, out, err, pre>>
    /\ \E ok \in BOOLEAN :
        /\ ok => dir[TEMP_PASSWD_FILE] # NoIno
        /\ ops' = [ops EXCEPT ![p] = Append(@, Call("rename", ok))]
        /\ IF ok
           THEN /\ dir' = [dir EXCEPT ![PASSWD_FILE] = dir[TEMP_PASSWD_FILE],
                                      ![TEMP_PASSWD_FILE] = NoIno]
                /\ inode' = Reclaim(inode, dir', fp_passwd, fp_temp)
           ELSE UNCHANGED <<dir, inode>>
        /\ Goto(p, "report")

\* if (rename(TEMP_PASSWD_FILE, PASSWD_FILE) != 0) return 1;
Rename(p) ==
    /\ pc[p] = "rename"
    /\ UNCHANGED <<instances, euid, fp_passwd, fp_temp, line_buffer,
                   new_shell_line, success_message, swapped, out, pre>>
    /\ \E ok \in BOOLEAN :
        /\ ok => dir[TEMP_PASSWD_FILE] # NoIno
        /\ ops' = [ops EXCEPT ![p] = Append(@, Call("rename", ok))]
        /\ IF ok
           THEN /\ dir' = [dir EXCEPT ![PASSWD_FILE] = dir[TEMP_PASSWD_FILE],
                                      ![TEMP_PASSWD_FILE] = NoIno]
                /\ inode' = Reclaim(inode, dir', fp_passwd, fp_temp)
                /\ UNCHANGED err
                /\ Goto(p, "report")
           ELSE /\ UNCHANGED <<dir, inode>>
                /\ err' = [err EXCEPT ![p] = @ \o
                        <<"CRITICAL: Error renaming /etc/passwd.tmp to /etc/passwd",
                          "The original /etc/passwd is UNCHANGED.",
                          "The modified content is in /etc/passwd.tmp. Manual intervention may be required.">>]
                /\ Return(p, 1)

\* the two printf, return 0
Report(p) ==
    /\ pc[p] = "report"
    /\ out' = [out EXCEPT ![p] = @ \o <<success_message[p], MSG_UPDATED>>]
    /\ UNCHANGED <<instances, dir, inode, euid, fp_passwd, fp_temp, line_buffer,
                   new_shell_line, success_message, swapped, err, ops, pre>>
    /\ Return(p, 0)

\* error exit: fclose(fp_passwd); fclose(fp_temp);
ErrClose(p) ==
    /\ pc[p] = "err_close"
    /\ UNCHANGED <<instances, dir, euid, line_buffer, new_shell_line,
                   success_message, swapped, out, err, pre>>
    /\ \E ok \in BOOLEAN :
        /\ Closed(p, ok)
        /\ Goto(p, "err_remove")

\* the error exit returns without the remove
ErrRemoveSkipped(p) ==
    /\ pc[p] = "err_remove"
    /\ UNCHANGED <<instances, dir, inode, euid, fp_passwd, fp_temp, line_buffer,
                   new_shell_line, success_message, swapped, out, err, ops, pre>>
    /\ Return(p, 1)

\* the error exit returns 0
ErrRemoveReturnsZero(p) ==
    /\ pc[p] = "err_remove"
    /\ UNCHANGED <<instances, euid, fp_passwd, fp_temp, line_buffer,
                   new_shell_line, success_message, swapped, out, err, pre>>
    /\ \E ok \in BOOLEAN :
        /\ ok => dir[TEMP_PASSWD_FILE] # NoIno
        /\ ops' = [ops EXCEPT ![p] = Append(@, Call("remove", ok))]
        /\ IF ok
           THEN /\ dir' = [dir EXCEPT ![TEMP_PASSWD_FILE] = NoIno]
                /\ inode' = Reclaim(inode, dir', fp_passwd, fp_temp)
           ELSE UNCHANGED <<dir, inode>>
        /\ Return(p, 0)

\* the error exit removes the database instead of the scratch file
ErrRemoveTarget(p) ==
    /\ pc[p] = "err_remove"
    /\ UNCHANGED <<instances, euid, fp_passwd, fp_temp, line_buffer,
                   new_shell_line, success_message, swapped, out, err, pre>>
    /\ \E ok \in BOOLEAN :
        /\ ok => dir[PASSWD_FILE] # NoIno
        /\ ops' = [ops EXCEPT ![p] = Append(@, Call("remove", ok))]
        /\ IF ok
           THEN /\ dir' = [dir EXCEPT ![PASSWD_FILE] = NoIno]
                /\ inode' = Reclaim(inode, dir', fp_passwd, fp_temp)
           ELSE UNCHANGED <<dir, inode>>
        /\ Return(p, 1)

\* error exit: remove(TEMP_PASSWD_FILE); return 1;
ErrRemove(p) ==
    /\ pc[p] = "err_remove"
    /\ UNCHANGED <<instances, euid, fp_passwd, fp_temp, line_buffer,
                   new_shell_line, success_message, swapped, out, err, pre>>
    /\ \E ok \in BOOLEAN :
        /\ ok => dir[TEMP_PASSWD_FILE] # NoIno
        /\ ops' = [ops EXCEPT ![p] = Append(@, Call("remove", ok))]
        /\ IF ok
           THEN /\ dir' = [dir EXCEPT ![TEMP_PASSWD_FILE] = NoIno]
                /\ inode' = Reclaim(inode, dir', fp_passwd, fp_temp)
           ELSE UNCHANGED <<dir, inode>>
        /\ Return(p, 1)

\* the process is killed between two calls: the kernel closes its
\* descriptors, what the stdio buffer held is lost, nothing is cleaned up
Kill(p) ==
    /\ pc[p] \notin {"idle", "done", "killed"}
    /\ pc' = [pc EXCEPT ![p] = "killed"]
    /\ fp_passwd' = [fp_passwd EXCEPT ![p] = NullFile]
    /\ fp_temp' = [fp_temp EXCEPT ![p] = NullFile]
    /\ inode' = Reclaim(inode, dir, fp_passwd', fp_temp')
    /\ hist' = Append(hist, [pre |-> pre[p], post |-> Snapshot(dir, inode'),
                             how |-> "killed", status |-> 0])
    /\ UNCHANGED <<instances, dir, euid, line_buffer, new_shell_line,
                   success_message, swapped, exit_status, out, err, ops, pre>>

Next ==
    \/ \E p \in instances : StartRun(p) /\ UNCHANGED installers
    \/ \E p \in instances : CheckRoot(p) /\ UNCHANGED installers
    \/ \E p \in instances : OpenPasswd(p) /\ UNCHANGED installers
    \/ \E p \in instances : OpenTemp(p) /\ UNCHANGED installers
    \/ \E p \in instances : ReadFirst(p) /\ UNCHANGED installers
    \/ \E p \in instances : Decide(p) /\ UNCHANGED installers
    \/ \E p \in instances : WriteFirst(p) /\ UNCHANGED installers
    \/ \E p \in instances : CopyRead(p) /\ UNCHANGED installers
    \/ \E p \in instances : CopyWrite(p) /\ UNCHANGED installers
    \/ \E p \in instances : CloseFiles(p) /\ UNCHANGED installers
    \/ \E p \in instances : Chmod(p) /\ UNCHANGED installers
    \/ \E p \in instances : Rename(p) /\ UNCHANGED installers
    \/ \E p \in instances : Report(p) /\ UNCHANGED installers
    \/ \E p \in instances : ErrClose(p) /\ UNCHANGED installers
    \/ \E p \in instances : ErrRemove(p) /\ UNCHANGED installers
    \/ \E p \in instances : Kill(p) /\ UNCHANGED installers

Spec == Init /\ [][Next]_vars

\* one step of main() in instance p: the process is scheduled and each
\* blocking call returns, with a result or an error
Step(p) ==
    /\ \/ CheckRoot(p) \/ OpenPasswd(p) \/ OpenTemp(p) \/ ReadFirst(p)
       \/ Decide(p) \/ WriteFirst(p) \/ CopyRead(p) \/ CopyWrite(p)
       \/ CloseFiles(p) \/ Chmod(p) \/ Rename(p) \/ Report(p)
       \/ ErrClose(p) \/ ErrRemove(p)
    /\ UNCHANGED installers

\* a started process keeps running until it returns or is killed; nothing
\* obliges anyone to kill it or to run the tool again
FairSpec == Spec /\ \A p \in Procs : WF_vars(Step(p))

\* two instances of the tool started at the same time on one database,
\* each run once to its return; their calls interleave in any order
ConcDatabases ==
    { ROOT_BASH_LINE \o "\n" \o DAEMON_LINE \o "\n" }

ConcInit ==
    /\ InitWith(Procs)
    /\ Target.content \in ConcDatabases
    /\ Target.mode = Mode0644
    /\ ~Scratch.exists
    /\ InstallersIdle

ConcNext ==
    \/ \E p \in instances : CheckRoot(p) /\ UNCHANGED installers
    \/ \E p \in instances : OpenPasswd(p) /\ UNCHANGED installers
    \/ \E p \in instances : OpenTemp(p) /\ UNCHANGED installers
    \/ \E p \in instances : ReadFirst(p) /\ UNCHANGED installers
    \/ \E p \in instances : Decide(p) /\ UNCHANGED installers
    \/ \E p \in instances : WriteFirst(p) /\ UNCHANGED installers
    \/ \E p \in instances : CopyRead(p) /\ UNCHANGED installers
    \/ \E p \in instances : CopyWrite(p) /\ UNCHANGED installers
    \/ \E p \in instances : CloseFiles(p) /\ UNCHANGED installers
    \/ \E p \in instances : Chmod(p) /\ UNCHANGED installers
    \/ \E p \in instances : Rename(p) /\ UNCHANGED installers
    \/ \E p \in instances : Report(p) /\ UNCHANGED installers
    \/ \E p \in instances : ErrClose(p) /\ UNCHANGED installers
    \/ \E p \in instances : ErrRemove(p) /\ UNCHANGED installers

ConcSpec == ConcInit /\ [][ConcNext]_vars

(* ======================================================================= *)
(* install-deb.sh                                                          *)
(* ======================================================================= *)
\* exit code: with the EXIT trap set, the cleanup runs before the shell ends
DebExit(d, code) ==
    IF d.trap THEN [d EXCEPT !.pc = "trap", !.status = code]
    ELSE [d EXCEPT !.pc = "exited", !.status = code]

DebRan(d, name, ok) == [d EXCEPT !.cmds = Append(@, Cmd(name, ok))]

\* architecture, root, curl, grep, sed, apt or dpkg, the release feed and
\* the URL of the package: any of them missing ends the script with 1
DebPrepare ==
    /\ deb.pc = "start"
    /\ \E ok \in BOOLEAN :
        deb' = IF ~ok \/ (~deb.have_apt /\ ~deb.have_dpkg)
               THEN DebExit(deb, 1)
               ELSE [deb EXCEPT !.pc = "mktemp"]
    /\ UNCHANGED <<tool, bin>>

\* TEMP_DIR=$(mktemp -d); trap '...; rm -rf "$TEMP_DIR"' EXIT
DebMktemp ==
    /\ deb.pc = "mktemp"
    /\ \E ok \in BOOLEAN :
        deb' = IF ok
               THEN [DebRan(deb, "mktemp", TRUE) EXCEPT
                        !.TEMP_DIR = TRUE, !.trap = TRUE, !.pc = "download"]
               ELSE DebExit(DebRan(deb, "mktemp", FALSE), 1)
    /\ UNCHANGED <<tool, bin>>

\* if ! curl -Lf -o "${TEMP_DEB_PATH}" "${DOWNLOAD_URL}"; then exit 1
DebDownload ==
    /\ deb.pc = "download"
    /\ \E got \in {"failed", "empty", "package"} :
        deb' = IF got = "failed"
               THEN DebExit(DebRan(deb, "curl", FALSE), 1)
               ELSE [DebRan(deb, "curl", TRUE) EXCEPT
                        !.TEMP_DEB_PATH = got, !.pc = "verify"]
    /\ UNCHANGED <<tool, bin>>

\* if [ ! -s "${TEMP_DEB_PATH}" ]; then exit 1
DebVerify ==
    /\ deb.pc = "verify"
    /\ deb' = IF deb.TEMP_DEB_PATH = "empty"
              THEN DebExit(deb, 1)
              ELSE [deb EXCEPT !.pc = "apt_update"]
    /\ UNCHANGED <<tool, bin>>

\* a failed apt update ends the script, as set -e does outside an if
DebAptUpdateAborts ==
    /\ deb.pc = "apt_update"
    /\ IF deb.have_apt
       THEN \E ok \in BOOLEAN :
               deb' = IF ok
                      THEN [DebRan(deb, "apt update", TRUE) EXCEPT !.pc = "apt_install"]
                      ELSE DebExit(DebRan(deb, "apt update", FALSE), 1)
       ELSE deb' = [deb EXCEPT !.pc = "dpkg"]
    /\ UNCHANGED <<tool, bin>>

\* if command -v apt; then if ! apt update -qq; then warning; fi ...
\* else warning: will proceed with dpkg -i
DebAptUpdate ==
    /\ deb.pc = "apt_update"
    /\ IF deb.have_apt
       THEN \E ok \in BOOLEAN :
               deb' = [DebRan(deb, "apt update", ok) EXCEPT !.pc = "apt_install"]
       ELSE deb' = [deb EXCEPT !.pc = "dpkg"]
    /\ UNCHANGED <<tool, bin>>

\* if apt install -y "${TEMP_DEB_PATH}"; then INSTALL_SUCCESS=1; else warning
DebAptInstall ==
    /\ deb.pc = "apt_install"
    /\ \E ok \in BOOLEAN :
        deb' = IF ok
               THEN [DebRan(deb, "apt install", TRUE) EXCEPT
                        !.INSTALL_SUCCESS = 1, !.installed = "apt", !.pc = "dpkg"]
               ELSE [DebRan(deb, "apt install", FALSE) EXCEPT !.pc = "dpkg"]
    /\ UNCHANGED <<tool, bin>>

\* if [ "$INSTALL_SUCCESS" -eq 0 ]; then dpkg -i, if there is a dpkg ...
DebDpkg ==
    /\ deb.pc = "dpkg"
    /\ IF deb.INSTALL_SUCCESS # 0
       THEN deb' = [deb EXCEPT !.pc = "finish"]
       ELSE IF ~deb.have_dpkg
       THEN deb' = DebExit(deb, 1)
       ELSE \E ok \in BOOLEAN :
               deb' = IF ok
                      THEN [DebRan(deb, "dpkg -i", TRUE) EXCEPT
                               !.INSTALL_SUCCESS = 1, !.installed = "dpkg",
                               !.advice = deb.have_apt, !.pc = "finish"]
                      ELSE DebExit(DebRan(deb, "dpkg -i", FALSE), 1)
    /\ UNCHANGED <<tool, bin>>

\* the closing message; exit 0
DebFinish ==
    /\ deb.pc = "finish"
    /\ deb' = DebExit(deb, 0)
    /\ UNCHANGED <<tool, bin>>

\* the EXIT trap: rm -rf "$TEMP_DIR"; under set -e a failing rm is what the
\* shell exits with
DebTrap ==
    /\ deb.pc = "trap"
    /\ \E ok \in BOOLEAN :
        deb' = [DebRan(deb, "rm -rf", ok) EXCEPT
                   !.TEMP_DIR = ~ok,
                   !.status = IF ok THEN @ ELSE 1,
                   !.pc = "exited"]
    /\ UNCHANGED <<tool, bin>>

(* ======================================================================= *)
(* install-binary.sh                                                       *)
(* ======================================================================= *)
BinExit(b, code) ==
    IF b.trap THEN [b EXCEPT !.pc = "trap", !.status = code]
    ELSE [b EXCEPT !.pc = "exited", !.status = code]

BinRan(b, name, ok) == [b EXCEPT !.cmds = Append(@, Cmd(name, ok))]

\* architecture, root, curl, grep, sed, the release feed and the URL of the
\* asset: any of them missing ends the script with 1
BinPrepare ==
    /\ bin.pc = "start"
    /\ \E ok \in BOOLEAN :
        bin' = IF ok THEN [bin EXCEPT !.pc = "mktemp"] ELSE BinExit(bin, 1)
    /\ UNCHANGED <<tool, deb>>

\* TEMP_DIR=$(mktemp -d); trap '...; rm -rf "$TEMP_DIR"' EXIT
BinMktemp ==
    /\ bin.pc = "mktemp"
    /\ \E ok \in BOOLEAN :
        bin' = IF ok
               THEN [BinRan(bin, "mktemp", TRUE) EXCEPT
                        !.TEMP_DIR = TRUE, !.trap = TRUE, !.pc = "download"]
               ELSE BinExit(BinRan(bin, "mktemp", FALSE), 1)
    /\ UNCHANGED <<tool, deb>>

\* if ! curl -Lf -o "${TEMP_BINARY_PATH}" "${DOWNLOAD_URL}"; then exit 1
\* (the file is created with mode 0666 less the umask)
BinDownload ==
    /\ bin.pc = "download"
    /\ \E got \in {"failed", "empty", "new"}, um \in Umasks :
        /\ got = "failed" => um = 18
        /\ bin' = IF got = "failed"
                  THEN BinExit(BinRan(bin, "curl", FALSE), 1)
                  ELSE [BinRan(bin, "curl", TRUE) EXCEPT
                           !.TEMP_BINARY_PATH = [holds |-> got, mode |-> CreateMode(um)],
                           !.pc = "verify"]
    /\ UNCHANGED <<tool, deb>>

\* if [ ! -s "${TEMP_BINARY_PATH}" ]; then exit 1; fi; chmod +x
BinVerify ==
    /\ bin.pc = "verify"
    /\ IF bin.TEMP_BINARY_PATH.holds = "empty"
       THEN bin' = BinExit(bin, 1)
       ELSE \E ok \in BOOLEAN :
               bin' = IF ok
                      THEN [BinRan(bin, "chmod +x", TRUE) EXCEPT
                               !.TEMP_BINARY_PATH.mode =
                                   IF @ = Mode0644 THEN Mode0755 ELSE Mode0700,
                               !.pc = "mv"]
                      ELSE BinExit(BinRan(bin, "chmod +x", FALSE), 1)
    /\ UNCHANGED <<tool, deb>>

\* a failed mv ends the script at once
BinMoveNoCleanup ==
    /\ bin.pc = "mv"
    /\ \E ok \in BOOLEAN, part \in BOOLEAN :
        /\ ok => ~part
        /\ bin' = IF ok
                  THEN [BinRan(bin, "mv", TRUE) EXCEPT
                           !.installed = bin.TEMP_BINARY_PATH,
                           !.TEMP_BINARY_PATH = NoBinary,
                           !.pc = "chown"]
                  ELSE BinExit([BinRan(bin, "mv", FALSE) EXCEPT
                           !.installed = IF part
                                         THEN [holds |-> "partial", mode |-> Mode0600]
                                         ELSE @], 1)
    /\ UNCHANGED <<tool, deb>>

\* if mv "${TEMP_BINARY_PATH}" "${INSTALL_DIR}/${BINARY_NAME}"; then ...
\* (a move that fails may have written part of the file at the destination)
BinMove ==
    /\ bin.pc = "mv"
    /\ \E ok \in BOOLEAN, part \in BOOLEAN :
        /\ ok => ~part
        /\ bin' = IF ok
                  THEN [BinRan(bin, "mv", TRUE) EXCEPT
                           !.installed = bin.TEMP_BINARY_PATH,
                           !.TEMP_BINARY_PATH = NoBinary,
                           !.pc = "chown"]
                  ELSE [BinRan(bin, "mv", FALSE) EXCEPT
                           !.installed = IF part
                                         THEN [holds |-> "partial", mode |-> Mode0600]
                                         ELSE @,
                           !.pc = "rm"]
    /\ UNCHANGED <<tool, deb>>

\* else: rm -f "${INSTALL_DIR}/${BINARY_NAME}" >/dev/null 2>&1; exit 1
BinRemove ==
    /\ bin.pc = "rm"
    /\ \E ok \in BOOLEAN :
        bin' = BinExit([BinRan(bin, "rm -f", ok) EXCEPT
                           !.installed = IF ok THEN NoBinary ELSE @], 1)
    /\ UNCHANGED <<tool, deb>>

\* chown root:root "${INSTALL_DIR}/${BINARY_NAME}"
BinChown ==
    /\ bin.pc = "chown"
    /\ \E ok \in BOOLEAN :
        bin' = IF ok
               THEN [BinRan(bin, "chown", TRUE) EXCEPT !.chowned = TRUE, !.pc = "chmod"]
               ELSE BinExit(BinRan(bin, "chown", FALSE), 1)
    /\ UNCHANGED <<tool, deb>>

\* chmod 755 "${INSTALL_DIR}/${BINARY_NAME}"; the messages; exit 0
BinChmod ==
    /\ bin.pc = "chmod"
    /\ \E ok \in BOOLEAN :
        bin' = IF ok
               THEN BinExit([BinRan(bin, "chmod 755", TRUE) EXCEPT
                                !.installed.mode = Mode0755], 0)
               ELSE BinExit(BinRan(bin, "chmod 755", FALSE), 1)
    /\ UNCHANGED <<tool, deb>>

\* the EXIT trap: rm -rf "$TEMP_DIR"; under set -e a failing rm is what the
\* shell exits with
BinTrap ==
    /\ bin.pc = "trap"
    /\ \E ok \in BOOLEAN :
        bin' = [BinRan(bin, "rm -rf", ok) EXCEPT
                   !.TEMP_DIR = ~ok,
                   !.TEMP_BINARY_PATH = IF ok THEN NoBinary ELSE @,
                   !.status = IF ok THEN @ ELSE 1,
                   !.pc = "exited"]
    /\ UNCHANGED <<tool, deb>>

(* ---- the two scripts, each run once ----------------------------------- *)
InstallInit ==
    /\ InitWith({})
    /\ Target = [exists |-> TRUE, content |-> ROOT_BASH_LINE \o "\n", mode |-> Mode0644]
    /\ ~Scratch.exists
    /\ deb \in DebStarts
    /\ bin \in BinStarts

InstallNext ==
    \/ DebPrepare
    \/ DebMktemp
    \/ DebDownload
    \/ DebVerify
    \/ DebAptUpdate
    \/ DebAptInstall
    \/ DebDpkg
    \/ DebFinish
    \/ DebTrap
    \/ BinPrepare
    \/ BinMktemp
    \/ BinDownload
    \/ BinVerify
    \/ BinMove
    \/ BinRemove
    \/ BinChown
    \/ BinChmod
    \/ BinTrap

InstallSpec == InstallInit /\ [][InstallNext]_vars

(* ======================================================================= *)
(* Properties                                                              *)
(* ======================================================================= *)

(* ---- vocabulary of the properties ------------------------------------- *)
\* a database is its records one after the other, each ending at a newline
\* (the last one possibly at the end of the file)
FirstLen(c) ==      \* length of record 1, its newline included
    LET nl == FirstNewline(c, 1, Len(c))
    IN  IF nl > 0 THEN nl ELSE Len(c)

FirstRecord(c) == SubSeq(c, 1, FirstLen(c))
RestRecords(c) == SubSeq(c, FirstLen(c) + 1, Len(c))     \* records 2..N
Terminated(c) == c # "" /\ SubSeq(c, Len(c), Len(c)) = "\n"
RootLine(c) ==      \* record 1 without its newline
    IF Terminated(FirstRecord(c))
    THEN SubSeq(c, 1, FirstLen(c) - 1)
    ELSE FirstRecord(c)

Recognized(c) == RootLine(c) \in {ROOT_BASH_LINE, ROOT_ZSH_LINE}
Alternate(line) == IF line = ROOT_BASH_LINE THEN ROOT_ZSH_LINE ELSE ROOT_BASH_LINE

\* the complete new database: swapped first line, then the old records 2..N
Expected(c) == Alternate(RootLine(c)) \o "\n" \o RestRecords(c)

Running == { p \in instances : pc[p] # "idle" }
Called(p, name) == \E i \in 1..Len(ops[p]) : ops[p][i].call = name
Succeeded(p, name) == \E i \in 1..Len(ops[p]) : ops[p][i] = Call(name, TRUE)
Failed(p, name) == \E i \in 1..Len(ops[p]) : ops[p][i] = Call(name, FALSE)
Exited(p, code) == pc[p] = "done" /\ exit_status[p] = code
LastCall(p) == ops[p][Len(ops[p])]

\* C1: in every reachable state of a run of one instance, failed calls and
\* kills included, a target that existed when the run started still exists
\* and holds either exactly the old content or exactly the complete new
\* content; it is never missing, empty or partial.
C1_TargetOldOrNew ==
    \A p \in Running :
        LET old == pre[p].target
        IN  old.exists =>
              /\ Target.exists
              /\ \/ Target.content = old.content
                 \/ /\ Recognized(old.content)
                    /\ Target.content = Expected(old.content)

\* a kill has left a partial copy at the scratch path, the target is intact
C1_Witness ==
    \E p \in Running :
        /\ pc[p] = "killed"
        /\ Scratch.exists
        /\ Len(Scratch.content) > 0
        /\ Recognized(pre[p].target.content)
        /\ Scratch.content # Expected(pre[p].target.content)
        /\ Target = pre[p].target

\* C2: when the first record, one trailing newline stripped, is neither of
\* the two recognized lines, the run exits nonzero, never attempts the
\* rename, and the target has the content and mode it had before the run.
\* (Written as the contrapositive: a run that changed the target, tried
\* the rename or exited 0 had a recognized first record.)
C2_NoMutationOnRejection ==
    \A p \in Running :
        \/ /\ Target = pre[p].target
           /\ ~Called(p, "rename")
           /\ pc[p] = "done" => exit_status[p] # 0
        \/ Recognized(pre[p].target.content)

\* a run rejected the fish line of root
C2_Witness ==
    \E p \in Running :
        /\ RootLine(pre[p].target.content) = FISH_LINE
        /\ Exited(p, 1)
        /\ Succeeded(p, "fgets")
        /\ Called(p, "remove")

\* C3: when the rename fails after every earlier step succeeded, the run
\* exits nonzero, the target is as before the run, and the scratch file is
\* kept: it exists with mode 0644 and holds the complete new content.
C3_CommitFailureKeepsScratch ==
    \A p \in Running :
        (pc[p] = "done" /\ Failed(p, "rename")) =>
            /\ exit_status[p] # 0
            /\ Target = pre[p].target
            /\ Scratch.exists
            /\ Scratch.mode = Mode0644
            /\ Scratch.content = Expected(pre[p].target.content)

\* a run whose rename failed, on a database of several records
C3_Witness ==
    \E p \in Running :
        /\ pc[p] = "done"
        /\ Failed(p, "rename")
        /\ RestRecords(pre[p].target.content) # ""

\* C4: after a successful run the records 2..N of the target are those of
\* the input, byte for byte, and record 1 is the alternate recognized line
\* followed by one newline.
C4_ContentPreserved ==
    \A p \in Running :
        Exited(p, 0) =>
            LET old == pre[p].target.content
            IN  /\ Recognized(old)
                /\ FirstRecord(Target.content) = Alternate(RootLine(old)) \o "\n"
                /\ RestRecords(Target.content) = RestRecords(old)

\* a successful run over a database whose records 2..N include one longer
\* than the line buffer and end without a newline
C4_Witness ==
    \E p \in Running :
        /\ Exited(p, 0)
        /\ Len(RestRecords(pre[p].target.content)) > LINE_BUFFER_SIZE
        /\ ~Terminated(pre[p].target.content)

\* C5: a successful run on the bash line writes the zsh line and reports
\* bash to zsh; on the zsh line it writes the bash line and reports zsh to
\* bash; the direction reported is the change written.
C5_ToggleDirection ==
    \A p \in Running :
        Exited(p, 0) =>
            LET old == RootLine(pre[p].target.content)
                new == RootLine(Target.content)
            IN  \/ /\ old = ROOT_BASH_LINE
                   /\ new = ROOT_ZSH_LINE
                   /\ out[p] = <<MSG_BASH_TO_ZSH, MSG_UPDATED>>
                \/ /\ old = ROOT_ZSH_LINE
                   /\ new = ROOT_BASH_LINE
                   /\ out[p] = <<MSG_ZSH_TO_BASH, MSG_UPDATED>>

\* a successful run that went from zsh to bash
C5_Witness ==
    \E p \in Running :
        /\ Exited(p, 0)
        /\ RootLine(pre[p].target.content) = ROOT_ZSH_LINE
        /\ out[p][1] = MSG_ZSH_TO_BASH

\* C6: two successful runs in succession bring the root record back to its
\* original content (bash -> zsh -> bash, zsh -> bash -> zsh) and leave the
\* records 2..N as they were across both runs; a database whose first
\* record ended with a newline is byte-identical after the two runs.
\* (Stated of the two runs last finished, at the exit of the second.)
C6_TwoRunsRestore ==
    (Len(hist) >= 2 /\ \E p \in Running : Exited(p, 0)) =>
        LET first == hist[Len(hist) - 1]
            second == hist[Len(hist)]
            orig == first.pre.target.content
            mid == first.post.target.content
            back == second.post.target.content
        IN  (first.how = "exit" /\ first.status = 0 /\
             second.how = "exit" /\ second.status = 0) =>
                /\ second.pre.target = first.post.target
                /\ RootLine(mid) = Alternate(RootLine(orig))
                /\ RootLine(back) = RootLine(orig)
                /\ RestRecords(mid) = RestRecords(orig)
                /\ RestRecords(back) = RestRecords(orig)
                /\ Terminated(FirstRecord(orig)) => back = orig

\* two successful runs have been made on a database of several records
\* that started with the zsh line
C6_Witness ==
    /\ Len(hist) >= 2
    /\ hist[1].status = 0 /\ hist[1].how = "exit"
    /\ hist[2].status = 0 /\ hist[2].how = "exit"
    /\ RootLine(hist[1].pre.target.content) = ROOT_ZSH_LINE
    /\ RestRecords(hist[1].pre.target.content) # ""

\* C7: the successful rename is the only step that changes what is at the
\* target path (existence, content, mode); until it the target is as the
\* run found it, and from it on the target is the complete new database.
C7_SingleCommitPoint ==
    /\ [][Target' # Target =>
            \E p \in instances : pc[p] = "rename" /\ pc'[p] = "report"]_vars
    /\ [](\A p \in Running :
            IF Succeeded(p, "rename")
            THEN /\ Target.exists
                 /\ Target.content = Expected(pre[p].target.content)
            ELSE Target = pre[p].target)

\* the rename has just succeeded and replaced a target of mode 0600
C7_Witness ==
    \E p \in Running :
        /\ pc[p] = "report"
        /\ pre[p].target.mode # Mode0644
        /\ Target # pre[p].target

\* C8 as stated: on every failure found after the scratch file was opened
\* and before the rename, the scratch path does not exist when the process
\* exits.
C8_ScratchGoneOnEveryFailure ==
    \A p \in Running :
        (Exited(p, 1) /\ Succeeded(p, "fopen_w") /\ ~Called(p, "rename"))
            => ~Scratch.exists

\* C8 amended: on every such failure the run ends with one call of remove
\* on the scratch path, made after the scratch handle was closed, and the
\* scratch path does not exist at exit when that call succeeded; the rename
\* failure path never calls remove, and a scratch file is left behind at
\* exit only by a failed remove or a failed rename.
C8_ScratchRemovedUnlessRemoveFails ==
    \A p \in Running :
        (pc[p] = "done" /\ Succeeded(p, "fopen_w")) =>
            /\ ~Called(p, "rename") =>
                /\ exit_status[p] = 1
                /\ LastCall(p).call = "remove"
                /\ Cardinality({ i \in 1..Len(ops[p]) : ops[p][i].call = "remove" }) = 1
                /\ \E i \in 1..Len(ops[p]) : ops[p][i].call = "fclose_w"
                /\ LastCall(p).ok => ~Scratch.exists
            /\ Called(p, "rename") => ~Called(p, "remove")
            /\ Scratch.exists => (Failed(p, "remove") \/ Failed(p, "rename"))

\* a copy write failed and the cleanup removed the scratch file
C8_Witness ==
    \E p \in Running :
        /\ Exited(p, 1)
        /\ Failed(p, "fputs")
        /\ Succeeded(p, "remove")
        /\ ~Scratch.exists

\* C9: after every successful run the mode of the target is exactly 0644,
\* whatever the mode of the scratch file and of the old target were.
C9_ModeAfterSuccess ==
    \A p \in Running :
        Exited(p, 0) => Target.exists /\ Target.mode = 420

\* a successful run that found both the target and a stale scratch file
\* with mode 0600
C9_Witness ==
    \E p \in Running :
        /\ Exited(p, 0)
        /\ pre[p].target.mode = 384
        /\ pre[p].scratch.exists
        /\ pre[p].scratch.mode = 384

\* C10: with an effective user id other than 0 the run exits 1 before any
\* file-system call: no file is opened, and the target and the scratch
\* path, a scratch file that was already there included, are untouched.
C10_NotRootNoFileSystemCall ==
    \A p \in Running :
        euid[p] # 0 =>
            /\ Exited(p, 1)
            /\ ops[p] = <<>>
            /\ ~fp_passwd[p].open
            /\ ~fp_temp[p].open
            /\ Snapshot(dir, inode) = pre[p]

\* a run without privilege has ended where a stale scratch file lay
C10_Witness ==
    \E p \in Running :
        /\ euid[p] # 0
        /\ pc[p] = "done"
        /\ pre[p].scratch.exists
        /\ pre[p].scratch.content # ""

\* C11: the process exits 0 exactly when the rename onto the target
\* succeeded; every other end of main returns 1; no run exits 0 with the
\* target unchanged and no run exits 1 with the target changed.
C11_ExitCodes ==
    \A p \in Running :
        pc[p] = "done" =>
            /\ exit_status[p] \in {0, 1}
            /\ exit_status[p] = 0 <=> Succeeded(p, "rename")
            /\ exit_status[p] = 0 => Target # pre[p].target
            /\ exit_status[p] = 1 => Target = pre[p].target

\* a run on a recognized database has exited 1 because fclose failed
C11_Witness ==
    \E p \in Running :
        /\ Exited(p, 1)
        /\ Failed(p, "fclose_w")
        /\ Succeeded(p, "fprintf")
        /\ Target = pre[p].target

\* C12: the swap goes ahead only when the whole first record, one trailing
\* newline stripped, is one of the two recognized lines; a first record
\* that ends in /bin/bash or /bin/zsh with another field, a blank or a
\* carriage return added is rejected and the target stays as it was.
C12_WholeLineComparison ==
    \A p \in Running :
        \/ /\ swapped[p] = 0
           /\ ~Called(p, "fprintf")
           /\ Target = pre[p].target
           /\ pc[p] = "done" => exit_status[p] = 1
        \/ RootLine(pre[p].target.content) \in {ROOT_BASH_LINE, ROOT_ZSH_LINE}

\* the record of root with another gecos field and /bin/bash was rejected
C12_Witness ==
    \E p \in Running :
        /\ Exited(p, 1)
        /\ RootLine(pre[p].target.content) = GECOS_BASH_LINE
        /\ Len(err[p]) = 3
        /\ err[p][3] = "No changes made."
        /\ Target = pre[p].target

\* C13: the usage promise of the README: whenever the shell field of the
\* root record in the first line is /bin/bash, a run as root in which every
\* call succeeds leaves a first record whose shell is /bin/zsh, and the
\* other way round for /bin/zsh.  The program does not keep it: it compares
\* the whole line, so a root record with another gecos is rejected.
AllCallsSucceeded(p) == \A i \in 1..Len(ops[p]) : ops[p][i].ok

IsRootRecord(line) == Len(line) >= 5 /\ SubSeq(line, 1, 5) = "root:"

ShellIs(line, shell) == IsRootRecord(line) /\ EndsWith(line, ":" \o shell)

C13_ReadmeUsagePromise ==
    \A p \in Running :
        (pc[p] = "done" /\ euid[p] = 0 /\ AllCallsSucceeded(p)) =>
            /\ ShellIs(RootLine(pre[p].target.content), "/bin/bash") =>
                   ShellIs(RootLine(Target.content), "/bin/zsh")
            /\ ShellIs(RootLine(pre[p].target.content), "/bin/zsh") =>
                   ShellIs(RootLine(Target.content), "/bin/bash")

\* C14 (as stated): after every run, whatever its outcome and whatever the
\* input file was, an empty one included, the target exists and is not
\* empty.
C14_TargetNonEmptyAfterEveryRun ==
    \A p \in Running :
        pc[p] = "done" => (Target.exists /\ Target.content # "")

\* C14 (amended): a target that existed and was not empty when the run
\* started exists and is not empty in every state of the run and after it,
\* whatever the outcome; a run on an empty or missing target fails and
\* leaves it empty or missing.
C14_NonEmptyTargetStaysNonEmpty ==
    \A p \in Running :
        IF pre[p].target.exists /\ pre[p].target.content # ""
        THEN Target.exists /\ Target.content # ""
        ELSE /\ Target = pre[p].target
             /\ pc[p] = "done" => exit_status[p] = 1

C14_Witness ==
    \E p \in Running :
        /\ Exited(p, 1)
        /\ Failed(p, "fputs")
        /\ Called(p, "remove")
        /\ pre[p].target.content # ""
        /\ Target.exists /\ Target.content # ""

\* the first fgets of the run returned NULL: the file is empty or the read
\* failed
NullFirstRead(p) ==
    /\ Len(ops[p]) >= 3
    /\ ops[p][3].call = "fgets"
    /\ (~ops[p][3].ok \/ pre[p].target.content = "")

\* C15 (as stated): when the source file is empty or the read of the first
\* line fails, the run exits 1, nothing is written to the scratch file, the
\* scratch file is deleted, and the target is unchanged.
C15_NullFirstReadDeletesScratch ==
    \A p \in Running :
        (pc[p] = "done" /\ NullFirstRead(p)) =>
            /\ exit_status[p] = 1
            /\ ~Called(p, "fprintf") /\ ~Called(p, "fputs")
            /\ ~Scratch.exists
            /\ Target = pre[p].target

\* C15 (amended): when the source file is empty or the read of the first
\* line fails, nothing is written to the scratch file, which stays at zero
\* bytes, and the target is unchanged; the run closes both files, calls
\* remove on the scratch path once and exits 1, and the scratch file is gone
\* at exit whenever that remove succeeded.
C15_NullFirstReadCleansUp ==
    \A p \in Running :
        NullFirstRead(p) =>
            /\ ~Called(p, "fprintf") /\ ~Called(p, "fputs")
            /\ Scratch.exists => Scratch.content = ""
            /\ Target = pre[p].target
            /\ pc[p] = "done" =>
                /\ exit_status[p] = 1
                /\ Len(ops[p]) = 6
                /\ SubSeq(ops[p], 4, 5) = <<Call("fclose_r", TRUE), Call("fclose_w", TRUE)>>
                      \/ SubSeq(ops[p], 4, 5) = <<Call("fclose_r", TRUE), Call("fclose_w", FALSE)>>
                /\ ops[p][6].call = "remove"
                /\ ops[p][6].ok => ~Scratch.exists
                /\ Len(err[p]) = 1

C15_Witness ==
    \E p \in Running :
        /\ Exited(p, 1)
        /\ NullFirstRead(p)
        /\ pre[p].target.exists /\ pre[p].target.content = ""
        /\ pre[p].scratch.exists /\ pre[p].scratch.content # ""
        /\ Succeeded(p, "remove")
        /\ ~Scratch.exists
        /\ Target = pre[p].target

\* C16: when the target file cannot be opened for reading, the run exits 1
\* having made that one call and no other: the target is unchanged and the
\* scratch path is neither created, truncated nor removed.
C16_SourceUnreadableNoMutation ==
    \A p \in Running :
        Failed(p, "fopen_r") =>
            /\ Exited(p, 1)
            /\ ops[p] = <<Call("fopen_r", FALSE)>>
            /\ Snapshot(dir, inode) = pre[p]
            /\ ~fp_passwd[p].open /\ ~fp_temp[p].open
            /\ out[p] = <<>>
            /\ err[p] = <<"Error opening /etc/passwd for reading">>

C16_Witness ==
    \E p \in Running :
        /\ Failed(p, "fopen_r")
        /\ Exited(p, 1)
        /\ pre[p].target.exists /\ Recognized(pre[p].target.content)
        /\ pre[p].scratch.exists /\ pre[p].scratch.content # ""
        /\ Scratch = pre[p].scratch
        /\ Target = pre[p].target

\* C17: when the scratch file cannot be opened or created for writing, the
\* run exits 1 with the target untouched and the source handle closed, and
\* it has made no read, write, chmod, remove or rename: its calls are the
\* two fopen and the fclose of the source.
C17_ScratchUnwritable ==
    \A p \in Running :
        Failed(p, "fopen_w") =>
            /\ Exited(p, 1)
            /\ ops[p] = <<Call("fopen_r", TRUE), Call("fopen_w", FALSE), Call("fclose_r", TRUE)>>
            /\ ~fp_passwd[p].open /\ ~fp_temp[p].open
            /\ Snapshot(dir, inode) = pre[p]
            /\ out[p] = <<>>
            /\ err[p] = <<"Error opening /etc/passwd.tmp for writing">>

C17_Witness ==
    \E p \in Running :
        /\ Failed(p, "fopen_w")
        /\ Exited(p, 1)
        /\ Succeeded(p, "fclose_r")
        /\ ~fp_passwd[p].open
        /\ Recognized(pre[p].target.content)
        /\ Target = pre[p].target
        /\ ~Scratch.exists

\* how many times the run has made the call, and how many times with success
Count(p, name) == Cardinality({ i \in 1..Len(ops[p]) : ops[p][i].call = name })
CountOk(p, name) == Cardinality({ i \in 1..Len(ops[p]) : ops[p][i] = Call(name, TRUE) })

\* C18: when main returns, on the success path and on every error path,
\* each handle that was opened has been closed exactly once and none is
\* open; and every remove, chmod and rename of the run comes after the
\* fclose of the scratch handle, which is closed whenever one of them is the
\* last call made.
C18_HandlesReleased ==
    \A p \in Running :
        /\ pc[p] = "done" =>
            /\ ~fp_passwd[p].open /\ ~fp_temp[p].open
            /\ Count(p, "fclose_r") = CountOk(p, "fopen_r")
            /\ Count(p, "fclose_w") = CountOk(p, "fopen_w")
            /\ Count(p, "fopen_r") <= 1 /\ Count(p, "fopen_w") <= 1
        /\ \A i \in 1..Len(ops[p]) :
            ops[p][i].call \in {"remove", "chmod", "rename"} =>
                \E j \in 1..(i - 1) : ops[p][j].call = "fclose_w"
        /\ (ops[p] # <<>> /\ LastCall(p).call \in {"remove", "chmod", "rename"}) =>
                ~fp_temp[p].open
        /\ fp_temp[p].open => ~Called(p, "fclose_w")
        /\ fp_passwd[p].open => ~Called(p, "fclose_r")

C18_Witness ==
    \E p \in Running :
        /\ Exited(p, 1)
        /\ Failed(p, "chmod")
        /\ Called(p, "remove")
        /\ Count(p, "fclose_r") = 1 /\ Count(p, "fclose_w") = 1
        /\ ~fp_passwd[p].open /\ ~fp_temp[p].open

\* the calls that only release or clean up
Cleanup == {"fclose_r", "fclose_w", "remove"}

\* once a call of the run has failed nothing is tried again: only the
\* closing of the handles and the removal of the scratch file follow
NoRetry(p) ==
    \A i \in 1..Len(ops[p]) :
        ~ops[p][i].ok =>
            \A j \in (i + 1)..Len(ops[p]) : ops[p][j].call \in Cleanup

\* the positions of main() from which it still has calls to make
Active == {"start", "open_passwd", "open_temp", "read_first", "decide",
           "write_first", "copy_read", "copy_write", "close_files", "chmod",
           "rename", "report", "err_close", "err_remove"}

\* C19: whatever calls fail and whatever the finite input file is, a run
\* that is scheduled terminates: it returns, or is killed; it returns 0
\* with nothing reported on stderr or 1 with the report of one failure;
\* no call is retried after a failure, and the copy loop makes no further
\* read after the read that met the end of the input or an error.
C19_Termination ==
    /\ \A p \in Procs : (pc[p] \in Active) ~> (pc[p] \in {"done", "killed"})
    /\ [](\A p \in Running :
            /\ NoRetry(p)
            /\ pc[p] = "done" =>
                \/ exit_status[p] = 0 /\ err[p] = <<>>
                \/ exit_status[p] = 1 /\ Len(err[p]) \in {1, 3}
            /\ pc[p] \in {"close_files", "chmod", "rename", "report"} =>
                /\ fp_passwd[p].open => Unread(inode[fp_passwd[p].ino].content, fp_passwd[p].off) = ""
                /\ LastCall(p).call # "fgets" => Called(p, "fclose_w"))

C19_Witness ==
    \E p \in Running :
        /\ Exited(p, 1)
        /\ Succeeded(p, "fputs")
        /\ Failed(p, "fgets")
        /\ Count(p, "fgets") >= 3
        /\ err[p] = <<"Error reading from /etc/passwd">>

\* C20: stdout stays empty until the rename has returned with success; what
\* is then printed is the line naming the direction followed by the
\* confirmation, and at that point the target holds the swapped first
\* line; a run that exits 1 or is killed before the report has printed
\* nothing on stdout.
C20_ReportAfterRename ==
    \A p \in Running :
        /\ out[p] # <<>> =>
            /\ Succeeded(p, "rename")
            /\ LastCall(p) = Call("rename", TRUE)
            /\ pc[p] = "done" /\ exit_status[p] = 0
            /\ out[p] = <<success_message[p], MSG_UPDATED>>
            /\ success_message[p] \in {MSG_BASH_TO_ZSH, MSG_ZSH_TO_BASH}
            /\ Target.content # pre[p].target.content
            /\ RootLine(Target.content) = new_shell_line[p]
        /\ (Exited(p, 1) \/ pc[p] = "killed") => out[p] = <<>>
        /\ Exited(p, 0) => Len(out[p]) = 2

C20_Witness ==
    \E p \in Running :
        /\ Exited(p, 0)
        /\ LastCall(p) = Call("rename", TRUE)
        /\ out[p] = <<MSG_ZSH_TO_BASH, MSG_UPDATED>>
        /\ RootLine(pre[p].target.content) = ROOT_ZSH_LINE
        /\ RootLine(Target.content) = ROOT_BASH_LINE

\* the run took the branch that rejects the first line
Rejected(p) == Len(err[p]) = 3 /\ err[p][3] = "No changes made."

\* C22: the first record is compared with the two recognized lines before
\* anything is written to the scratch file: a write call, or a byte in the
\* scratch handle's buffer, is found only in a run whose comparison has
\* succeeded; on the rejection path no write call is made, the scratch
\* file holds zero bytes for as long as it exists, and the run ends with
\* the close of the scratch handle followed by remove.
C22_ValidationBeforeWrite ==
    \A p \in Running :
        /\ (Called(p, "fprintf") \/ Called(p, "fputs") \/ fp_temp[p].buf # "") =>
            /\ swapped[p] = 1
            /\ new_shell_line[p] \in {ROOT_BASH_LINE, ROOT_ZSH_LINE}
        /\ Rejected(p) =>
            /\ swapped[p] = 0
            /\ ~Called(p, "fprintf") /\ ~Called(p, "fputs")
            /\ fp_temp[p].buf = ""
            /\ Scratch.exists => Scratch.content = ""
            /\ pc[p] = "done" =>
                /\ Len(ops[p]) = 6
                /\ ops[p][5].call = "fclose_w"
                /\ ops[p][6].call = "remove"

C22_Witness ==
    \E p \in Running :
        /\ Rejected(p)
        /\ Exited(p, 1)
        /\ pre[p].scratch.exists /\ pre[p].scratch.content # ""
        /\ Failed(p, "remove")
        /\ Scratch.exists /\ Scratch.content = ""

\* the position of the one call of that name in the run, 0 if not made
At(p, name) ==
    IF Called(p, name)
    THEN CHOOSE i \in 1..Len(ops[p]) : ops[p][i].call = name
    ELSE 0

\* C23: chmod is called right after a successful fclose of the scratch
\* file, rename right after a successful chmod, and rename only in a run
\* all of whose earlier calls succeeded and whose first line was
\* recognized; a failed close or chmod is never followed by a rename; and
\* a target that the run has replaced has mode 0644.
C23_FinalizeOrdering ==
    \A p \in Running :
        /\ Called(p, "chmod") =>
            /\ Count(p, "chmod") = 1
            /\ ops[p][At(p, "chmod") - 1] = Call("fclose_w", TRUE)
        /\ Called(p, "rename") =>
            /\ Count(p, "rename") = 1
            /\ ops[p][At(p, "rename") - 1] = Call("chmod", TRUE)
            /\ \A i \in 1..(At(p, "rename") - 1) : ops[p][i].ok
            /\ swapped[p] = 1
            /\ Succeeded(p, "fprintf")
        /\ (Failed(p, "fclose_w") \/ Failed(p, "chmod")) =>
            /\ ~Called(p, "rename")
            /\ Target = pre[p].target
        /\ Target # pre[p].target =>
            /\ Target.mode = Mode0644
            /\ Succeeded(p, "rename")

C23_Witness ==
    \E p \in Running :
        /\ Exited(p, 1)
        /\ Failed(p, "chmod")
        /\ Succeeded(p, "fclose_w")
        /\ ~Called(p, "rename")
        /\ pre[p].target.mode # Mode0644
        /\ Target = pre[p].target

\* a read of the source or a write to the scratch file failed while the
\* records after the first were being copied
CopyFailed(p) ==
    \/ Failed(p, "fputs")
    \/ Called(p, "fprintf") /\ Failed(p, "fgets")

\* C24 (as stated): after a read error or a write error in the copy of
\* records 2..N the run exits 1, has removed the scratch file and never
\* reaches rename; rename is reached only after the copy loop ended at the
\* clean end of the input with every record written.
C24_CopyFailureRemovesScratch ==
    \A p \in Running :
        /\ (pc[p] = "done" /\ CopyFailed(p)) =>
            /\ exit_status[p] = 1
            /\ ~Called(p, "rename")
            /\ ~Scratch.exists
        /\ pc[p] = "rename" => Scratch.content = Expected(pre[p].target.content)

\* C24 (amended): after a read error or a write error in the copy of
\* records 2..N the run never calls chmod or rename and leaves the target
\* as it was; it exits 1 after calling remove on the scratch path once, as
\* its last call, and the scratch file is gone whenever that remove
\* succeeded. Rename is reached only after the copy loop ended at the clean
\* end of the input, every read and write having succeeded, with the
\* scratch file holding the complete new database.
C24_TruncatedCopyNeverCommitted ==
    \A p \in Running :
        /\ CopyFailed(p) =>
            /\ ~Called(p, "chmod") /\ ~Called(p, "rename")
            /\ Target = pre[p].target
            /\ pc[p] = "done" =>
                /\ exit_status[p] = 1
                /\ Count(p, "remove") = 1
                /\ LastCall(p).call = "remove"
                /\ LastCall(p).ok => ~Scratch.exists
        /\ pc[p] = "rename" =>
            /\ ~Failed(p, "fgets") /\ ~Failed(p, "fputs")
            /\ Count(p, "fputs") = Count(p, "fgets") - 2
            /\ Scratch.content = Expected(pre[p].target.content)

C24_Witness ==
    \E p \in Running :
        /\ Exited(p, 1)
        /\ Failed(p, "fputs")
        /\ Count(p, "fputs") >= 2
        /\ Succeeded(p, "remove")
        /\ ~Scratch.exists
        /\ Target = pre[p].target

\* C25: the line compared is the first line read less one trailing
\* newline, if it had one; the first line written is the alternate
\* recognized line followed by one newline, whether or not the line read
\* had one; so a file that is just a recognized line without a newline is
\* accepted and, after a successful run, is the alternate line and one
\* newline.
C25_NewlineNormalisation ==
    \A p \in Running :
        /\ pc[p] = "write_first" =>
            /\ line_buffer[p] \in {ROOT_BASH_LINE, ROOT_ZSH_LINE}
            /\ FirstRecord(pre[p].target.content) \in {line_buffer[p], line_buffer[p] \o "\n"}
            /\ new_shell_line[p] = Alternate(line_buffer[p])
        /\ Exited(p, 0) =>
            /\ FirstRecord(Target.content) = Alternate(RootLine(pre[p].target.content)) \o "\n"
            /\ RestRecords(Target.content) = RestRecords(pre[p].target.content)
            /\ pre[p].target.content \in {ROOT_BASH_LINE, ROOT_ZSH_LINE} =>
                   Target.content = Alternate(pre[p].target.content) \o "\n"

C25_Witness ==
    \E p \in Running :
        /\ Exited(p, 0)
        /\ pre[p].target.content = ROOT_BASH_LINE
        /\ Target.content = ROOT_ZSH_LINE \o "\n"

\* what a run leaves at the target path and returns, as a function of the
\* target it found and of the results of its calls; the scratch file it
\* found is not an argument
ResultOf(target, calls) ==
    IF \E i \in 1..Len(calls) : calls[i] = Call("rename", TRUE)
    THEN [target |-> [exists |-> TRUE, content |-> Expected(target.content),
                      mode |-> Mode0644],
          status |-> 0]
    ELSE [target |-> target, status |-> 1]

\* C26: the scratch file is empty once it has been opened, whatever was at
\* its path, and what a run leaves at the target path and the status it
\* returns are determined by the target it found and the results of its
\* calls alone: two runs that differ only in what was at the scratch path
\* end with the same target and status, and no byte of an old scratch file
\* reaches the target.
C26_IndependentOfStaleScratch ==
    \A p \in Running :
        /\ (ops[p] # <<>> /\ LastCall(p) = Call("fopen_w", TRUE)) =>
            /\ Scratch.exists /\ Scratch.content = ""
            /\ fp_temp[p].off = 0 /\ fp_temp[p].buf = ""
        /\ pc[p] = "done" =>
            /\ Target = ResultOf(pre[p].target, ops[p]).target
            /\ exit_status[p] = ResultOf(pre[p].target, ops[p]).status
        /\ pc[p] # "done" => Target \in {pre[p].target, ResultOf(pre[p].target, ops[p]).target}

C26_Witness ==
    \E p \in Running :
        /\ Exited(p, 0)
        /\ pre[p].scratch.exists
        /\ pre[p].scratch.content # ""
        /\ pre[p].scratch.mode # Mode0644
        /\ Target = ResultOf(pre[p].target, ops[p]).target
        /\ Len(RestRecords(pre[p].target.content)) > 0

\* what the run has handed to the scratch file so far, written out or
\* still in the buffer of the handle
Handed(p) == inode[fp_temp[p].ino].content \o fp_temp[p].buf

\* C27: a read takes at most 255 bytes; in the copy loop each chunk read
\* is written as it is, so that what has been written is at every turn the
\* new first line followed by the input's bytes after record 1 up to the
\* read position, and a record longer than one chunk comes out as its
\* chunks in order, byte-identical after a successful run; a first line
\* that does not fit in one read is never recognized: nothing is written
\* and the target is not changed.
C27_LongRecords ==
    \A p \in Running :
        /\ Len(line_buffer[p]) < LINE_BUFFER_SIZE
        /\ pc[p] = "copy_write" =>
            LET old == pre[p].target.content
            IN  Handed(p) \o line_buffer[p] =
                    new_shell_line[p] \o "\n" \o SubSeq(old, FirstLen(old) + 1, fp_passwd[p].off)
        /\ Exited(p, 0) =>
            /\ Len(FirstRecord(pre[p].target.content)) < LINE_BUFFER_SIZE
            /\ RestRecords(Target.content) = RestRecords(pre[p].target.content)
        /\ (swapped[p] = 1 \/ Called(p, "fprintf") \/ Target # pre[p].target) =>
            Len(FirstRecord(pre[p].target.content)) < LINE_BUFFER_SIZE

C27_Witness ==
    \E p \in Running :
        /\ Exited(p, 0)
        /\ RestRecords(pre[p].target.content) = LONG_LINE \o "\n" \o NOBODY_LINE
        /\ Count(p, "fputs") = 3
        /\ RestRecords(Target.content) = LONG_LINE \o "\n" \o NOBODY_LINE

C27_WitnessLongFirstLine ==
    \E p \in Running :
        /\ Exited(p, 1)
        /\ Rejected(p)
        /\ Len(FirstRecord(pre[p].target.content)) >= LINE_BUFFER_SIZE
        /\ SubSeq(pre[p].target.content, 1, Len(ROOT_BASH_LINE)) = ROOT_BASH_LINE
        /\ Target = pre[p].target

\* the database the two instances started from is the one either of them
\* sees at its start
Started == pre["A"].target.content

\* the target holds none of the complete databases a sequence of successful
\* swaps can produce: it is empty or an incomplete copy
Damaged ==
    /\ Target.content # Started
    /\ Target.content # Expected(Started)
    /\ Target.content # Expected(Expected(Started))

\* C21: two instances run at the same time share the scratch path without
\* a lock. The target can be damaged only through that sharing: whenever
\* it holds something other than a complete database, both instances have
\* opened the scratch file and one of them has renamed it onto the target;
\* and such states are reached (witnesses below): the target empty, or a
\* partial copy, while the other instance still has the renamed file open.
C21_DamageOnlyByScratchRace ==
    /\ Target.exists
    /\ \/ /\ \A q \in Procs : Succeeded(q, "fopen_w")
          /\ \E p \in Procs : Succeeded(p, "rename")
       \/ ~Damaged

\* one instance has renamed the scratch file the other had just truncated:
\* the target is zero-length, and the other instance is still writing to it
C21_Witness ==
    \E p, q \in Procs :
        /\ p # q
        /\ Succeeded(p, "rename")
        /\ Target.content = ""
        /\ fp_temp[q].open
        /\ fp_temp[q].ino = dir[PASSWD_FILE]
        /\ Started # ""

\* the same with the other instance part of the way through its copy
C21_WitnessPartial ==
    \E p, q \in Procs :
        /\ p # q
        /\ Exited(p, 0)
        /\ pc[q] = "done"
        /\ Target.content # ""
        /\ Damaged
        /\ Len(Target.content) < Len(Started)

(* ======================================================================= *)
(* The installer scripts                                                   *)
(* ======================================================================= *)
\* the script r ran the command name, with the result ok
Ran(r, name, ok) == \E i \in 1..Len(r.cmds) : r.cmds[i] = Cmd(name, ok)
RanAny(r, name) == Ran(r, name, TRUE) \/ Ran(r, name, FALSE)
Before(r, a, b) ==
    \A i, j \in 1..Len(r.cmds) :
        (r.cmds[i].cmd = a /\ r.cmds[j].cmd = b) => i < j

\* install-deb.sh went through its install stage and has ended
DebInstallStageOver == deb.pc = "exited" /\ deb.TEMP_DEB_PATH = "package"

\* C28 as stated: apt install is tried first when there is an apt; dpkg -i
\* is tried if and only if there is no apt or apt install failed; the exit
\* code is 0 exactly when one of the two installs succeeded, and 1 otherwise;
\* the fix-broken advice is printed only after a successful dpkg -i; a failed
\* apt update does not end the script.
C28_FallbackAsStated ==
    DebInstallStageOver =>
        /\ RanAny(deb, "apt install") <=> deb.have_apt
        /\ Before(deb, "apt install", "dpkg -i")
        /\ RanAny(deb, "dpkg -i") <=>
               (~deb.have_apt \/ Ran(deb, "apt install", FALSE))
        /\ deb.status = 0 <=>
               (Ran(deb, "apt install", TRUE) \/ Ran(deb, "dpkg -i", TRUE))
        /\ deb.status \in {0, 1}
        /\ deb.advice => Ran(deb, "dpkg -i", TRUE)
        /\ Ran(deb, "apt update", FALSE) => RanAny(deb, "apt install")

\* C28: apt install is tried first, exactly when there is an apt; dpkg -i is
\* tried if and only if there is a dpkg and either there is no apt or apt
\* install failed; the exit code is 0 exactly when one of the two installs
\* succeeded and the cleanup of the temporary directory succeeded, and 1
\* otherwise; the fix-broken advice is printed only after a successful
\* dpkg -i on a system with apt; a failed apt update does not end the script:
\* apt install is still tried after it.
C28_FallbackStrategy ==
    DebInstallStageOver =>
        /\ RanAny(deb, "apt install") <=> deb.have_apt
        /\ Before(deb, "apt install", "dpkg -i")
        /\ RanAny(deb, "dpkg -i") <=>
               /\ deb.have_dpkg
               /\ ~deb.have_apt \/ Ran(deb, "apt install", FALSE)
        /\ deb.status = 0 <=>
               /\ Ran(deb, "apt install", TRUE) \/ Ran(deb, "dpkg -i", TRUE)
               /\ Ran(deb, "rm -rf", TRUE)
        /\ deb.status \in {0, 1}
        /\ deb.advice => Ran(deb, "dpkg -i", TRUE) /\ deb.have_apt
        /\ Ran(deb, "apt update", FALSE) => RanAny(deb, "apt install")
        /\ (deb.INSTALL_SUCCESS = 1) <=>
               (Ran(deb, "apt install", TRUE) \/ Ran(deb, "dpkg -i", TRUE))

\* apt update failed, apt install failed, dpkg -i installed the package, the
\* advice was printed and the script ended with 0
C28_Witness ==
    /\ DebInstallStageOver
    /\ Ran(deb, "apt update", FALSE)
    /\ Ran(deb, "apt install", FALSE)
    /\ Ran(deb, "dpkg -i", TRUE)
    /\ deb.installed = "dpkg"
    /\ deb.advice
    /\ deb.status = 0

\* apt install failed on a system without dpkg: nothing else is tried
C28_WitnessNoDpkg ==
    /\ DebInstallStageOver
    /\ Ran(deb, "apt install", FALSE)
    /\ ~deb.have_dpkg
    /\ ~RanAny(deb, "dpkg -i")
    /\ deb.status = 1

\* the package was installed and the cleanup failed: the exit code is 1
C28_WitnessCleanupFailed ==
    /\ DebInstallStageOver
    /\ deb.INSTALL_SUCCESS = 1
    /\ Ran(deb, "rm -rf", FALSE)
    /\ deb.status = 1

\* install-binary.sh has ended
BinOver == bin.pc = "exited"
NewBinary == [holds |-> "new", mode |-> Mode0755]

\* C29 as stated: exit code 0 only after the downloaded non-empty file was
\* moved to /bin/shellswap and given owner root:root and mode 755; after a
\* failed move /bin/shellswap is gone and the exit code is 1; once the
\* temporary directory was created it is gone at every exit.
C29_BinaryOutcomeAsStated ==
    BinOver =>
        /\ bin.status = 0 =>
               /\ Ran(bin, "mv", TRUE)
               /\ bin.installed = NewBinary
               /\ bin.chowned
        /\ Ran(bin, "mv", FALSE) =>
               bin.installed = NoBinary /\ bin.status = 1
        /\ Ran(bin, "mktemp", TRUE) => ~bin.TEMP_DIR

\* C29: exit code 0 only after the downloaded non-empty file was moved to
\* /bin/shellswap and given owner root:root and mode 755 (and the cleanup
\* succeeded); after a failed move, rm -f /bin/shellswap is run and the exit
\* code is 1, and the file, a previously installed binary included, is gone
\* whenever that rm succeeded; once the temporary directory was created,
\* rm -rf is run on it at every exit and it is gone whenever that succeeded.
C29_BinaryOutcome ==
    BinOver =>
        /\ bin.status \in {0, 1}
        /\ bin.status = 0 =>
               /\ Ran(bin, "curl", TRUE)
               /\ Ran(bin, "mv", TRUE)
               /\ bin.installed = NewBinary
               /\ bin.chowned
               /\ Ran(bin, "rm -rf", TRUE)
        /\ Ran(bin, "mv", FALSE) =>
               /\ RanAny(bin, "rm -f")
               /\ Ran(bin, "rm -f", TRUE) => bin.installed = NoBinary
               /\ bin.status = 1
        /\ Ran(bin, "mktemp", TRUE) =>
               /\ RanAny(bin, "rm -rf")
               /\ Ran(bin, "rm -rf", TRUE) => ~bin.TEMP_DIR

\* there was a binary at /bin/shellswap, the move failed, the file was
\* removed, the temporary directory too, and the exit code is 1
C29_Witness ==
    /\ BinOver
    /\ Ran(bin, "mv", FALSE)
    /\ Ran(bin, "rm -f", TRUE)
    /\ bin.installed = NoBinary
    /\ bin.previous = OldBinary
    /\ Ran(bin, "rm -rf", TRUE)
    /\ ~bin.TEMP_DIR
    /\ bin.status = 1

\* the binary was installed and the script ended with 0
C29_WitnessInstalled ==
    /\ BinOver
    /\ bin.status = 0
    /\ bin.installed = NewBinary
    /\ bin.chowned
    /\ ~bin.TEMP_DIR

====
